---- MODULE Spec2Model ----
(***************************************************************************)
(* A model of the dexit test framework: the Runner (runTask, runTaskList,  *)
(* runTest, runTestSet, run) and the part of the Repository that builds    *)
(* the tree the Runner walks.                                              *)
(*                                                                         *)
(* JavaScript runs each callback to its next await without interruption.   *)
(* An action of this model is one such stretch of one async function; the  *)
(* call of another async function (runTest, runTestSet) is the spawn of    *)
(* that function, whose own first stretch is its own first action.         *)
(***************************************************************************)
EXTENDS Integers, Sequences, FiniteSets, TLC

\* ------------------------------------------------------------------ bounds

\* longest task list whose tasks differ in id, runBeforeAsync and
\* continueOnError
MaxTasks == 2
\* longest task list whose tasks differ in id and runBeforeAsync only
MaxChain == 3
\* longest task list whose tasks differ in continueOnError, expect and set
MaxPhaseTasks == 1
\* most tests of one test set in the run specification
MaxTests == 2
MaxWork == 2
MaxDocs == 2
\* most pieces (texts and tokens) of an interpolated string
MaxPieces == 2

\* ------------------------------------------------------- program constants

\* runOrder of the task at index i is i * OrderStride (Runner.ts:164)
OrderStride == 1000

\* ------------------------------------------------------------- JSON values

\* A value of a document, of ctx.params or of a result: undefined, a
\* string, a number, or an object with its properties.  A string is the
\* sequence of its pieces: a piece is a text without token, or a token
\* "${path}" with path the sequence of the names between the dots.
Undefined == [type |-> "undefined"]
Null == [type |-> "null"]
Str(pieces) == [type |-> "string", pieces |-> pieces]
JsNumber(n) == [type |-> "number", n |-> n]
Obj(props) == [type |-> "object", props |-> props]

EmptyObject == Obj([k \in {} |-> Undefined])

Text(text) == [tok |-> FALSE, text |-> << text >>]
Token(path) == [tok |-> TRUE, text |-> path]

\* { name: value }
Prop(name, value) == Obj([k \in {name} |-> value])

\* a property of the schema: the value, when present, has this type
PropertyOfType(v, name, type) ==
    name \in DOMAIN v.props => v.props[name].type = type

\* ARGS_SCHEMA and EXPECT_SCHEMA of JsModule
JsArgsSchema(v) ==
    /\ v.type = "object"
    /\ PropertyOfType(v, "code", "string")
    /\ PropertyOfType(v, "script", "string")

JsExpectSchema(v) ==
    /\ v.type = "object"
    /\ PropertyOfType(v, "code", "string")
    /\ PropertyOfType(v, "script", "string")

\* REQUEST_ARGS_SCHEMA and EXPECT_SCHEMA of HttpModule
HttpArgsSchema(v) ==
    /\ v.type = "object"
    /\ PropertyOfType(v, "url", "string")
    /\ PropertyOfType(v, "baseUrl", "string")
    /\ PropertyOfType(v, "path", "string")
    /\ PropertyOfType(v, "query", "object")
    /\ PropertyOfType(v, "body", "string")

HttpExpectSchema(v) ==
    /\ v.type = "object"
    /\ PropertyOfType(v, "code", "number")
    /\ PropertyOfType(v, "jsonSchema", "object")

\* cmd._argsValidator(v) and cmd._expectValidator(v) of the command do
ArgsValidator(do, v) ==
    IF do = "js.eval" THEN JsArgsSchema(v) ELSE HttpArgsSchema(v)

ExpectValidator(do, v) ==
    IF do = "js.eval" THEN JsExpectSchema(v) ELSE HttpExpectSchema(v)

\* ------------------------------------------------------------- resolveArgs

\* JP.value(data, "$." + path): the value at the path from position i on,
\* undefined when a name of the path is missing
RECURSIVE Lookup(_, _, _)
Lookup(v, path, i) ==
    IF i > Len(path) THEN v
    ELSE IF v.type = "object" /\ path[i] \in DOMAIN v.props
         THEN Lookup(v.props[path[i]], path, i + 1)
         ELSE Undefined

\* String(value), what String.prototype.replace makes of its second
\* argument
ToText(v) ==
    IF v.type = "string" THEN v.pieces
    ELSE IF v.type = "number" THEN << Text(ToString(v.n)) >>
    ELSE IF v.type = "object" THEN << Text("[object Object]") >>
    ELSE << Text("undefined") >>

\* res.replace(piece, with): the first occurrence is replaced
ReplaceFirst(res, piece, with) ==
    IF \E j \in 1..Len(res) : res[j] = piece
    THEN LET j == CHOOSE j \in 1..Len(res) :
                    res[j] = piece /\ \A h \in 1..(j - 1) : res[h] # piece
         IN  SubSeq(res, 1, j - 1) \o with \o SubSeq(res, j + 1, Len(res))
    ELSE res

IsToken(piece) == piece.tok

\* args.match(/\$\{...\}/g): the tokens of the string in their order
Tokens(pieces) == SelectSeq(pieces, IsToken)

\* the loop over ipols from index i on: the value itself when the string
\* is the token, else the token's first occurrence in res replaced
RECURSIVE Interpolate(_, _, _, _, _)
Interpolate(data, args, res, ipols, i) ==
    IF i > Len(ipols) THEN Str(res)
    ELSE LET value == Lookup(data, ipols[i].text, 1)
         IN  IF args = << ipols[i] >> THEN value
             ELSE Interpolate(data, args,
                              ReplaceFirst(res, ipols[i], ToText(value)),
                              ipols, i + 1)

\* resolveArgs(data, args): strings interpolated, objects traversed, any
\* other value returned as it is
RECURSIVE ResolveArgs(_, _)
ResolveArgs(data, args) ==
    IF args.type = "string"
    THEN Interpolate(data, args.pieces, args.pieces, Tokens(args.pieces), 1)
    ELSE IF args.type = "object"
    THEN Obj([k \in DOMAIN args.props |-> ResolveArgs(data, args.props[k])])
    ELSE args

\* ------------------------------------------------------------------- tasks

\* task.id and task.runBeforeAsync when absent (falsy in the conditions of
\* Runner.ts:162 and :172)
NoId == ""

\* Task ids of the model.  None of them is an integer-like string, so that a
\* for-in loop over an object keyed by them visits the keys in insertion
\* order.
TaskIds == {"a", "b"}

\* the command ids "module.command" that ModuleMgr.getCommand resolves, and
\* one that it does not
Commands == {"js.eval", "http.get"}
UnknownCommand == "js.none"

\* ITestTask.  expect and set say whether the task defines task.expect and
\* task.set, whose values are expectArgs and setArgs; args has the default
\* of the task schema, {}; do is the id of a registered command unless
\* said otherwise; returns holds the results the command may return for
\* the task (undefined unless said otherwise).
Task(id, rba, coe, exp, set) ==
    [id |-> id, runBeforeAsync |-> rba, continueOnError |-> coe,
     expect |-> exp, set |-> set, do |-> "js.eval",
     args |-> EmptyObject, expectArgs |-> EmptyObject, setArgs |-> EmptyObject,
     returns |-> { Undefined }]

\* the key of the task at position p (index p - 1) in taskMap
TaskKey(tasks, p) ==
    IF tasks[p].id # NoId THEN tasks[p].id ELSE "$_" \o ToString(p - 1) \o "_#"

\* The keys of taskMap in insertion order: a key keeps the place of its
\* first assignment.
RECURSIVE KeysUpTo(_, _)
KeysUpTo(tasks, n) ==
    IF n = 0 THEN << >>
    ELSE LET prev == KeysUpTo(tasks, n - 1)
             k == TaskKey(tasks, n)
         IN  IF \E j \in 1..Len(prev) : prev[j] = k THEN prev
             ELSE Append(prev, k)

KeyOrder(tasks) == KeysUpTo(tasks, Len(tasks))

KeySet(tasks) == {TaskKey(tasks, p) : p \in 1..Len(tasks)}

\* The position whose task taskMap[k] holds: the last assignment wins.
MapPos(tasks, k) ==
    CHOOSE p \in 1..Len(tasks) :
        /\ TaskKey(tasks, p) = k
        /\ \A q \in 1..Len(tasks) : TaskKey(tasks, q) = k => q <= p

MapTask(tasks, k) == tasks[MapPos(tasks, k)]

\* "Add tasks to map": runOrder and waitOrder of every key
InitialRunOrder(tasks) ==
    [k \in KeySet(tasks) |-> (MapPos(tasks, k) - 1) * OrderStride]

WaitOrder(tasks) ==
    [k \in KeySet(tasks) |-> ((MapPos(tasks, k) - 1) * OrderStride) + 1]

\* "Resolve dependencies": one pass over the keys in insertion order, each
\* reading the target's runOrder as it is at that moment.
RECURSIVE ResolveFrom(_, _, _, _)
ResolveFrom(tasks, keys, j, ro) ==
    IF j > Len(keys) THEN ro
    ELSE LET k == keys[j]
             dep == MapTask(tasks, k).runBeforeAsync
         IN  IF dep = NoId
             THEN ResolveFrom(tasks, keys, j + 1, ro)
             ELSE ResolveFrom(tasks, keys, j + 1,
                              [ro EXCEPT ![k] = ro[dep] - 1])

ResolveDependenciesInOrder(tasks) ==
    ResolveFrom(tasks, KeyOrder(tasks), 1, InitialRunOrder(tasks))

\* (mutant) "Resolve dependencies" left out
RunOrderInitial(tasks) == InitialRunOrder(tasks)

RunOrder(tasks) == ResolveDependenciesInOrder(tasks)

\* "Create an execution plan": a run step and a wait step per key
RECURSIVE PlanSteps(_, _, _)
PlanSteps(tasks, keys, j) ==
    IF j > Len(keys) THEN << >>
    ELSE << [kind |-> "run", id |-> keys[j], order |-> RunOrder(tasks)[keys[j]]],
            [kind |-> "wait", id |-> keys[j], order |-> WaitOrder(tasks)[keys[j]]] >>
         \o PlanSteps(tasks, keys, j + 1)

\* executionPlan.sort(by order): stable for the short arrays of a plan
RECURSIVE InsertStep(_, _)
InsertStep(step, sorted) ==
    IF sorted = << >> THEN << step >>
    ELSE IF sorted[Len(sorted)].order > step.order
         THEN Append(InsertStep(step, SubSeq(sorted, 1, Len(sorted) - 1)),
                     sorted[Len(sorted)])
         ELSE Append(sorted, step)

RECURSIVE SortSteps(_, _)
SortSteps(steps, n) ==
    IF n = 0 THEN << >> ELSE InsertStep(steps[n], SortSteps(steps, n - 1))

\* (mutant) the plan without its sort
ExecutionPlanUnsorted(tasks) == PlanSteps(tasks, KeyOrder(tasks), 1)

ExecutionPlan(tasks) ==
    LET steps == PlanSteps(tasks, KeyOrder(tasks), 1)
    IN  SortSteps(steps, Len(steps))

\* Repository.validateTaskList, the runBeforeAsync check: some task of the
\* list carries the named id.
DependenciesFound(tasks) ==
    \A p \in 1..Len(tasks) :
        tasks[p].runBeforeAsync # NoId =>
            \E q \in 1..Len(tasks) : tasks[q].id = tasks[p].runBeforeAsync


\* ----------------------------------------------------------------- runTask

\* "Failed to execute task <phase>: <detail>" (the detail is left out)
Failed(phase) == "Failed to execute task " \o phase

ErrInvalidRun == "Task has invalid run arguments:"
ErrInvalidExpect == "Task has invalid expect arguments:"

\* The state of one call of runTask.
\*   tpc     "none": not called (completitionPromise is null); "pending":
\*           awaiting cmd.run; "done": the promise is resolved with the
\*           report; "rejected": the promise is rejected
\*   ready   the flag of the promiseWait latch handed to the call
\*   phase   the local variable phase
\*   errors  report.errors
\*   ran     cmd.run was invoked
\*   setDone ctx.params was assigned by the set step
\*   runArgs, result, setArgs  the fields of the report
\*   thrown  the phase in which an exception was really thrown, "none" if
\*           none was (what happened, as opposed to what the report says)
NoTaskRun ==
    [tpc |-> "none", ready |-> FALSE, phase |-> "validation",
     errors |-> << >>, ran |-> FALSE, setDone |-> FALSE, thrown |-> "none",
     runArgs |-> Null, result |-> Null, setArgs |-> Null]

\* (mutant) no catch block: the exception leaves runTask, whose promise
\* rejects
CatchNothing(tr) == [tr EXCEPT !.tpc = "rejected"]

\* the catch block: one error naming the current phase; the report is
\* returned, so the promise resolves
Catch(tr) ==
    [tr EXCEPT !.tpc = "done", !.errors = Append(@, Failed(tr.phase))]

\* an exception is thrown inside the try block
Throw(tr) == Catch([tr EXCEPT !.thrown = tr.phase])

\* (mutant) the validation branch without onReady.resolve()
ValidationFailedUnready(tr, argErrors, expectErrors) ==
    [tr EXCEPT
        !.tpc = "done",
        !.errors = (IF Len(argErrors) > 0 THEN << ErrInvalidRun >> ELSE << >>)
                   \o argErrors
                   \o (IF Len(expectErrors) > 0 THEN << ErrInvalidExpect >> ELSE << >>)
                   \o expectErrors]

\* the validation branch: headers and errors pushed, the latch resolved, the
\* report returned
ValidationFailed(tr, argErrors, expectErrors) ==
    [tr EXCEPT
        !.tpc = "done",
        !.ready = TRUE,
        !.errors = (IF Len(argErrors) > 0 THEN << ErrInvalidRun >> ELSE << >>)
                   \o argErrors
                   \o (IF Len(expectErrors) > 0 THEN << ErrInvalidExpect >> ELSE << >>)
                   \o expectErrors]

\* What validateArgs and validateExpect may return, when one of them
\* returns an error.
ValidationCases ==
    { << << "argument error" >>, << >> >>,
      << << >>, << "expectation error" >> >> }

\* cmd.run(report.runArgs, () => onReady.resolve()) is called: the command
\* may call notifyReady before it returns, and it either throws or returns
\* its promise.
CmdRunCalled(tr, notified, threw) ==
    LET called == [tr EXCEPT !.phase = "run", !.ran = TRUE,
                             !.ready = notified, !.tpc = "pending"]
    IN  IF threw THEN Throw(called) ELSE called

\* runTask from its call to its first await (or to its return): an
\* exception before report.runArgs is assigned, or runArgs resolved from
\* ctx.params (the model's modules have no defaults), then the validation
\* and the call of cmd.run.
RunTaskBegin(task, params) ==
    LET tr == [NoTaskRun EXCEPT !.tpc = "pending"]
        resolved == [tr EXCEPT !.runArgs = ResolveArgs(params, task.args)]
    IN  { Throw(tr) }
        \cup { ValidationFailed(resolved, c[1], c[2]) : c \in ValidationCases }
        \cup { CmdRunCalled(resolved, n, t) : n \in BOOLEAN, t \in BOOLEAN }

\* Object.assign({}, v)
AsObject(v) == IF v.type = "object" THEN v ELSE EmptyObject

\* Object.assign(params, setObj)
Assign(params, setObj) == Obj(setObj.props @@ params.props)

\* deepMerge(a, b): objects are merged property by property, anything else
\* is replaced by the value of b; the result is a new value
RECURSIVE DeepMerge(_, _)
DeepMerge(a, b) ==
    IF a.type = "object" /\ b.type = "object"
    THEN Obj([k \in DOMAIN a.props \cup DOMAIN b.props |->
                IF k \notin DOMAIN b.props THEN a.props[k]
                ELSE IF k \notin DOMAIN a.props THEN b.props[k]
                ELSE DeepMerge(a.props[k], b.props[k])])
    ELSE b

\* resolveArgs(Object.assign({}, report.result), task.set)
SetArgs(result, set) == ResolveArgs(AsObject(result), set)

\* (mutant) the set step is left out for a report with errors
SetStepUnlessErrors(task, tr) ==
    IF task.set /\ tr.errors = << >>
    THEN LET s == [tr EXCEPT !.phase = "set"]
         IN  { [s EXCEPT !.setDone = TRUE, !.tpc = "done",
                         !.setArgs = SetArgs(tr.result, task.setArgs)],
               Throw(s) }
    ELSE { [tr EXCEPT !.tpc = "done"] }

\* the set step: resolveArgs over the result, then ctx.params is assigned
\* (the assignment itself is made where the list's context is at hand)
SetStep(task, tr) ==
    IF task.set
    THEN LET s == [tr EXCEPT !.phase = "set"]
         IN  { [s EXCEPT !.setDone = TRUE, !.tpc = "done",
                         !.setArgs = SetArgs(tr.result, task.setArgs)],
               Throw(s) }
    ELSE { [tr EXCEPT !.tpc = "done"] }

\* the expect step: cmd.expect, if the command has one and the task defines
\* expect, replaces report.errors by what it returns
ExpectStep(task, tr) ==
    LET e == [tr EXCEPT !.phase = "expect"]
    IN  IF task.expect
        THEN SetStep(task, e)
             \cup SetStep(task, [e EXCEPT !.errors = << "assertion error" >>])
             \cup { Throw(e) }
        ELSE SetStep(task, e)

\* runTask from the settling of the cmd.run promise to its return: the
\* promise is rejected, or fulfilled with one of the results the task's
\* command returns
RunSettled(task, tr) ==
    { Throw(tr) }
    \cup UNION { ExpectStep(task, [tr EXCEPT !.result = r]) : r \in task.returns }

\* ------------------------------------------------------------------- state

VARIABLES
    ex,     \* the call of runTaskList each running entity is in
    tree,   \* the built tree: the Repository's set entries by path
    sets,   \* the call of runTestSet of every set entry
    tests,  \* the call of runTest of every test entry
    top     \* the call of Runner.run

vars == << ex, tree, sets, tests, top >>

upper == << tree, sets, tests, top >>

\* ------------------------------------------------------------- runTaskList

\* The state of one call of runTaskList.
\*   plan    executionPlan
\*   i       index of the current step in the execution plan (from 1)
\*   cstate  "new": called, nothing done yet; "awaitReady": in a run step,
\*           at await ready.promise; "awaitDone": in a wait step, at await
\*           target.completitionPromise; "returned"; "rejected"
\*   run     the runTask call of every key
\*   reports taskReports, as the keys in the order pushed
\*   runLog  the keys in the order of the run steps executed
\*   params  ctx.params of the context object made for the entity the list
\*           belongs to
\*   ctx     the context object the call was given: own, or the object of
\*           another entity
OwnContext == [own |-> TRUE]

NewList(tasks) ==
    [tasks |-> tasks, plan |-> ExecutionPlan(tasks), i |-> 1, cstate |-> "new",
     run |-> [k \in KeySet(tasks) |-> NoTaskRun],
     reports |-> << >>, errorCount |-> 0, shouldTerminate |-> FALSE,
     runLog |-> << >>, params |-> EmptyObject, ctx |-> OwnContext]

CurrentStep(l) == l.plan[l.i]

\* ctx.params as the call of runTaskList reads it
Params(l) == IF l.ctx.own THEN l.params ELSE ex[l.ctx.of].params

\* One turn of the loop from the top of step l.i to the next await; past
\* the last step the function returns its report.
ExecuteStep(l) ==
    IF l.i > Len(l.plan)
    THEN { [l EXCEPT !.cstate = "returned"] }
    ELSE LET step == CurrentStep(l)
         IN  IF step.kind = "run"
             THEN { [l EXCEPT !.cstate = "awaitReady",
                              !.run[step.id] = tr,
                              !.runLog = Append(@, step.id)]
                    : tr \in RunTaskBegin(MapTask(l.tasks, step.id), Params(l)) }
             ELSE IF l.run[step.id].tpc = "none"
                  \* await null, then taskReport.errors of null throws
                  THEN { [l EXCEPT !.cstate = "rejected"] }
                  ELSE { [l EXCEPT !.cstate = "awaitDone"] }

\* (mutant) every task with errors ends the list
TerminatesListAlways(task, tr) == Len(tr.errors) > 0

\* taskReport.errors.length > 0 and the task does not continue on error
TerminatesList(task, tr) ==
    Len(tr.errors) > 0 /\ ~task.continueOnError

\* (mutant) the loop without its break
AfterStepNoBreak(l) == ExecuteStep([l EXCEPT !.i = l.i + 1])

\* "Terminate?": leave the loop, or go on with the next step
AfterStep(l) ==
    IF l.shouldTerminate
    THEN { [l EXCEPT !.cstate = "returned"] }
    ELSE ExecuteStep([l EXCEPT !.i = l.i + 1])

\* the wait step once the awaited promise has settled
WaitStepDone(l) ==
    LET k == CurrentStep(l).id
        tr == l.run[k]
    IN  IF tr.tpc = "rejected"
        THEN { [l EXCEPT !.cstate = "rejected"] }
        ELSE AfterStep(
                [l EXCEPT
                    !.errorCount = IF Len(tr.errors) > 0 THEN @ + 1 ELSE @,
                    !.shouldTerminate =
                        @ \/ TerminatesList(MapTask(l.tasks, k), tr),
                    !.reports = Append(@, k)])


\* ------------------------------------------- the actions of a task list

\* the coordinator's first turn
BeginList(e) ==
    /\ ex[e].cstate = "new"
    /\ \E l \in ExecuteStep(ex[e]) : ex' = [ex EXCEPT ![e] = l]

\* (mutant) a latch whose promise resolves at once
ReadyObservedUnlatched(e) ==
    /\ ex[e].cstate = "awaitReady"
    /\ \E l \in AfterStep(ex[e]) : ex' = [ex EXCEPT ![e] = l]

\* the latch's timer finds the flag set: ready.promise resolves and the
\* loop goes on
ReadyObserved(e) ==
    /\ ex[e].cstate = "awaitReady"
    /\ ex[e].run[CurrentStep(ex[e]).id].ready
    /\ \E l \in AfterStep(ex[e]) : ex' = [ex EXCEPT ![e] = l]

\* the awaited completitionPromise has settled
WaitObserved(e) ==
    /\ ex[e].cstate = "awaitDone"
    /\ ex[e].run[CurrentStep(ex[e]).id].tpc \in {"done", "rejected"}
    /\ \E l \in WaitStepDone(ex[e]) : ex' = [ex EXCEPT ![e] = l]

\* a running command calls notifyReady
NotifyReady(e, k) ==
    /\ ex[e].run[k].tpc = "pending"
    /\ ~ex[e].run[k].ready
    /\ ex' = [ex EXCEPT ![e].run[k].ready = TRUE]

\* the entity whose context object the list of e was given
ContextOf(e) == IF ex[e].ctx.own THEN e ELSE ex[e].ctx.of

\* the promise of a running command settles and runTask runs to its end;
\* a set step assigns to ctx.params
CommandSettles(e, k) ==
    /\ ex[e].run[k].tpc = "pending"
    /\ \E tr \in RunSettled(MapTask(ex[e].tasks, k), ex[e].run[k]) :
           ex' = [ex EXCEPT
                    ![e].run[k] = tr,
                    ![ContextOf(e)].params =
                        IF tr.setDone THEN Assign(@, tr.setArgs) ELSE @]

ListNext ==
    \E e \in DOMAIN ex :
        \/ BeginList(e)
        \/ ReadyObserved(e)
        \/ WaitObserved(e)
        \/ \E k \in DOMAIN ex[e].run : NotifyReady(e, k)
        \/ \E k \in DOMAIN ex[e].run : CommandSettles(e, k)

\* ------------------------------------- specification of a single task list

\* tasks with the scheduling fields free and neither expect nor set
PlainTasks ==
    { Task(id, rba, coe, FALSE, FALSE) :
        id \in {NoId} \cup TaskIds, rba \in {NoId} \cup TaskIds,
        coe \in BOOLEAN }

\* tasks that differ in id and runBeforeAsync only (continueOnError has its
\* default, false)
DependencyTasks == { t \in PlainTasks : ~t.continueOnError }

\* tasks without id that differ in continueOnError, expect and set
PhaseTasks ==
    { Task(NoId, NoId, coe, exp, set) :
        coe \in BOOLEAN, exp \in BOOLEAN, set \in BOOLEAN }

RECURSIVE ListsOf(_, _)
ListsOf(S, n) ==
    IF n = 0 THEN { << >> }
    ELSE LET shorter == ListsOf(S, n - 1)
         IN  shorter \cup { Append(l, t) : l \in { x \in shorter : Len(x) = n - 1 },
                                            t \in S }

\* The task lists of the task-list specification, each one accepted by
\* Repository.validateTaskList.
ValidLists ==
    { l \in ListsOf(PlainTasks, MaxTasks)
            \cup ListsOf(DependencyTasks, MaxChain)
            \cup ListsOf(PhaseTasks, MaxPhaseTasks) : DependenciesFound(l) }

TheList == "list"

NoTree == << >>

ListInit ==
    /\ \E l \in ValidLists : ex = [e \in {TheList} |-> NewList(l)]
    /\ tree = NoTree
    /\ sets = << >>
    /\ tests = << >>
    /\ top = [pc |-> "idle"]

ListSpec == ListInit /\ [][ListNext /\ UNCHANGED upper]_vars


\* --------------------------- specification of a task list with parameters

\* the result {body: {token: "xyz"}}
TokenResult == Prop("body", Prop("token", Str(<< Text("xyz") >>)))

\* task.set: {token: "$.body.token"} and {token: "${body.token}"}
SetByPath == Prop("token", Str(<< Text("$.body.token") >>))
SetByToken == Prop("token", Str(<< Token(<< "body", "token" >>) >>))

\* task.args: {auth: "${token}"}
AuthArgs == Prop("auth", Str(<< Token(<< "token" >>) >>))

\* tasks whose command returns TokenResult: id "a" or none, run before "a"
\* or not, with one of the set mappings or none, with the args or none
ParamTasks ==
    { [Task(id, rba, FALSE, FALSE, set # EmptyObject) EXCEPT
          !.args = args, !.setArgs = set, !.returns = { TokenResult }] :
        id \in {NoId, "a"}, rba \in {NoId, "a"},
        set \in {EmptyObject, SetByPath, SetByToken},
        args \in {EmptyObject, AuthArgs} }

\* ctx.params when the list is called
ParamValues == { EmptyObject, Prop("token", Str(<< Text("old") >>)) }

\* top keeps the params the list was called with
ParamInit ==
    /\ \E l \in { x \in ListsOf(ParamTasks, MaxTasks) : DependenciesFound(x) },
          p \in ParamValues :
          /\ ex = [e \in {TheList} |-> [NewList(l) EXCEPT !.params = p]]
          /\ top = [pc |-> "idle", params |-> p]
    /\ tree = NoTree
    /\ sets = << >>
    /\ tests = << >>

ParamSpec == ParamInit /\ [][ListNext /\ UNCHANGED upper]_vars

\* tasks whose command returns TokenResult, with expect or without, with
\* the set mapping {token: "${body.token}"} or without set
SetTasks ==
    { [Task(NoId, NoId, TRUE, exp, set) EXCEPT
          !.setArgs = IF set THEN SetByToken ELSE EmptyObject,
          !.returns = { TokenResult }] :
        exp \in BOOLEAN, set \in BOOLEAN }

\* lists of up to MaxPhaseTasks such tasks, called with or without a token
\* in ctx.params
SetInit ==
    /\ \E l \in ListsOf(SetTasks, MaxPhaseTasks), p \in ParamValues :
          /\ ex = [e \in {TheList} |-> [NewList(l) EXCEPT !.params = p]]
          /\ top = [pc |-> "idle", params |-> p]
    /\ tree = NoTree
    /\ sets = << >>
    /\ tests = << >>

SetSpec == SetInit /\ [][ListNext /\ UNCHANGED upper]_vars

\* ------------------------------------------------- claims on a task list

InSeq(seq, x) == \E j \in 1..Len(seq) : seq[j] = x

IsPrefix(p, q) == Len(p) <= Len(q) /\ SubSeq(q, 1, Len(p)) = p

IndexOf(seq, x) == CHOOSE j \in 1..Len(seq) : seq[j] = x

Lists == { ex[e] : e \in DOMAIN ex }

\* the report of key k is recorded, has errors, and its task does not
\* continue on error
FailedStopAt(l, k) ==
    /\ InSeq(l.reports, k)
    /\ Len(l.run[k].errors) > 0
    /\ ~MapTask(l.tasks, k).continueOnError

FailedStop(l) == \E k \in DOMAIN l.run : FailedStopAt(l, k)

\* no two tasks of the list carry the same id
UniqueIds(tasks) ==
    \A p \in 1..Len(tasks), q \in 1..Len(tasks) :
        (p # q /\ tasks[p].id # NoId) => tasks[p].id # tasks[q].id

\* the id reached from id by n hops along runBeforeAsync (NoId if the
\* chain ends before)
RECURSIVE Follow(_, _, _)
Follow(tasks, id, n) ==
    IF n = 0 \/ id = NoId THEN id
    ELSE Follow(tasks, (CHOOSE t \in { tasks[p] : p \in 1..Len(tasks) } : t.id = id).runBeforeAsync,
                n - 1)

\* no task reaches itself along runBeforeAsync
Acyclic(tasks) ==
    \A p \in 1..Len(tasks), n \in 1..Len(tasks) :
        tasks[p].id # NoId => Follow(tasks, tasks[p].id, n) # tasks[p].id

\* C1: in a list with unique ids and no runBeforeAsync cycle, for each task
\* T whose runBeforeAsync names task U, the run step of U is executed only
\* after the run step of T, wherever T and U stand in the list and whether
\* or not U carries a runBeforeAsync of its own.
C1_RunBeforeOrder ==
    \A l \in Lists :
        (UniqueIds(l.tasks) /\ DependenciesFound(l.tasks) /\ Acyclic(l.tasks)) =>
            \A t \in DOMAIN l.run, u \in DOMAIN l.run :
                (MapTask(l.tasks, t).runBeforeAsync = u /\ InSeq(l.runLog, u))
                    => (InSeq(l.runLog, t)
                        /\ IndexOf(l.runLog, t) < IndexOf(l.runLog, u))

\* C2: whenever the result future of a task has completed, its ready latch
\* is resolved (so the coordinator's run step cannot stay blocked).
C2_LatchResolvedOnCompletion ==
    \A l \in Lists : \A k \in DOMAIN l.run :
        l.run[k].tpc = "done" => l.run[k].ready

\* no step of the plan after the current one has been executed
NothingAfterCurrent(l) ==
    \A j \in (l.i + 1)..Len(l.plan) :
        IF l.plan[j].kind = "run"
        THEN l.run[l.plan[j].id].tpc = "none" /\ ~InSeq(l.runLog, l.plan[j].id)
        ELSE ~InSeq(l.reports, l.plan[j].id)

C3_Stopped ==
    \A l \in Lists :
        FailedStop(l) =>
            /\ l.cstate = "returned"
            /\ l.i \in 1..Len(l.plan)
            /\ l.plan[l.i].kind = "wait" /\ FailedStopAt(l, l.plan[l.i].id)
            /\ NothingAfterCurrent(l)

C3_StaysStopped ==
    \A e \in DOMAIN ex :
        FailedStop(ex[e]) =>
            /\ ex'[e].runLog = ex[e].runLog
            /\ ex'[e].reports = ex[e].reports
            /\ ex'[e].i = ex[e].i

\* C3: once the wait step of a task with errors and continueOnError = false
\* is processed, runTaskList has returned, the current step is that wait
\* step, no later step of the plan was executed, and none is executed from
\* then on (no run step, so no TaskBegin; no wait step).
C3_NoStepAfterFailedWait == []C3_Stopped /\ [][C3_StaysStopped]_vars

\* a list stopped by a failed task while a later task was never started
C3_Witness ==
    \E l \in Lists :
        /\ FailedStop(l)
        /\ \E k \in DOMAIN l.run : l.run[k].tpc = "none"
        /\ Len(l.runLog) >= 1

\* C4: when runTaskList has returned after a task with continueOnError =
\* false failed, every task that was started has had its wait step executed
\* (its report is recorded).
C4_StartedTasksAwaited ==
    \A l \in Lists :
        (l.cstate = "returned" /\ FailedStop(l)) =>
            \A k \in DOMAIN l.run : InSeq(l.runLog, k) => InSeq(l.reports, k)

ThrowPhases == {"run", "expect", "set"}

FailedCount(errors) ==
    Cardinality({ j \in 1..Len(errors) :
                    errors[j] \in { Failed(p) : p \in ThrowPhases \cup {"validation"} } })

\* C9: an exception thrown in the run, expect or set phase of a task (a
\* rejected run promise included) does not reject runTask, so it rejects
\* nothing above it: the task's promise resolves with a report whose last
\* error is the one "Failed to execute task <phase>" error of the report, for
\* the phase of the throw; a report of a task in which nothing was thrown
\* holds no such error; and runTaskList rejects only in a wait step whose
\* task was never started.
C9_ThrownIsCaught ==
    \A l \in Lists :
        /\ \A k \in DOMAIN l.run :
            LET tr == l.run[k]
            IN  /\ tr.tpc # "rejected"
                /\ tr.thrown \in ThrowPhases =>
                     /\ tr.tpc = "done"
                     /\ FailedCount(tr.errors) = 1
                     /\ tr.errors[Len(tr.errors)] = Failed(tr.thrown)
                /\ tr.thrown = "none" => FailedCount(tr.errors) = 0
        /\ l.cstate = "rejected" =>
             /\ l.plan[l.i].kind = "wait"
             /\ l.run[l.plan[l.i].id].tpc = "none"

\* a list has returned with the report of a task whose set step threw
\* after its expect step had returned an assertion error
C9_Witness ==
    \E l \in Lists : \E k \in DOMAIN l.run :
        /\ l.cstate = "returned"
        /\ InSeq(l.reports, k)
        /\ l.run[k].thrown = "set"
        /\ Len(l.run[k].errors) = 2

\* the keys of the reports with errors
FailedReports(l) ==
    { k \in DOMAIN l.run : InSeq(l.reports, k) /\ Len(l.run[k].errors) > 0 }

\* C23: a task that finishes with errors and has continueOnError = true
\* does not set the termination flag (the flag is set exactly when a
\* recorded report has errors and its task does not continue on error), it
\* adds one to the list's errorCount like every failed task, and a list
\* that returns without such a stop has executed every step of its plan.
C23_ContinueOnError ==
    \A l \in Lists :
        /\ l.shouldTerminate <=> FailedStop(l)
        /\ l.errorCount = Cardinality(FailedReports(l))
        /\ (l.cstate = "returned" /\ ~FailedStop(l)) =>
              /\ l.i = Len(l.plan) + 1
              /\ \A k \in DOMAIN l.run : InSeq(l.runLog, k) /\ InSeq(l.reports, k)

\* a list has returned after all its steps although its first report has
\* errors, the task continuing on error; a later task was run after it
C23_Witness ==
    \E l \in Lists :
        /\ l.cstate = "returned" /\ ~l.shouldTerminate
        /\ Len(l.reports) = 2
        /\ Len(l.run[l.reports[1]].errors) > 0
        /\ MapTask(l.tasks, l.reports[1]).continueOnError
        /\ l.runLog = l.reports
        /\ l.errorCount >= 1

\* the keys of the tasks started whose latch is not resolved
Unready(l) == { k \in DOMAIN l.run : InSeq(l.runLog, k) /\ ~l.run[k].ready }

C27_OneUnready ==
    \A l \in Lists :
        /\ \A k \in Unready(l) :
              /\ l.cstate = "awaitReady"
              /\ l.plan[l.i] = [kind |-> "run", id |-> k, order |-> l.plan[l.i].order]
        /\ \A k \in DOMAIN l.run :
              l.run[k].ready => (l.run[k].ran \/ l.run[k].phase = "validation")

C27_Blocked ==
    \A e \in DOMAIN ex :
        Unready(ex[e]) # {} =>
            /\ ex'[e].runLog = ex[e].runLog
            /\ ex'[e].reports = ex[e].reports
            /\ ex'[e].i = ex[e].i
            /\ ex'[e].cstate = ex[e].cstate

\* C27: the coordinator of a list starts tasks one at a time: a started
\* task whose latch is not resolved is the task of the current run step,
\* and while there is one the coordinator executes no step (no task is
\* started, no wait step processed); a latch is resolved only by notifyReady
\* of a command that was run or by the validation branch.  The started
\* task may go on in the background after its latch is resolved.
C27_OneAtATime == []C27_OneUnready /\ [][C27_Blocked]_vars

\* the second task of a list was started while the command of the first,
\* which had signalled ready, was still running
C27_Witness ==
    \E l \in Lists :
        /\ Len(l.runLog) = 2
        /\ l.run[l.runLog[1]].tpc = "pending" /\ l.run[l.runLog[1]].ready
        /\ l.run[l.runLog[2]].tpc = "pending" /\ ~l.run[l.runLog[2]].ready
        /\ l.cstate = "awaitReady"

\* the ids of the wait steps of a plan, in plan order
RECURSIVE WaitIds(_, _)
WaitIds(plan, n) ==
    IF n = 0 THEN << >>
    ELSE IF plan[n].kind = "wait"
         THEN Append(WaitIds(plan, n - 1), plan[n].id)
         ELSE WaitIds(plan, n - 1)

\* tasks [A (id a), B (runBeforeAsync a)]
RunBeforeExample ==
    << Task("a", NoId, FALSE, FALSE, FALSE), Task(NoId, "a", FALSE, FALSE, FALSE) >>

\* C28: the reports of a list (and so its TaskComplete events) are in the
\* order of the plan's wait steps, which is the order of the tasks' places
\* in the list, whatever the order in which the commands finished; for the
\* tasks [A (id a), B (runBeforeAsync a)] the tasks are run B then A and
\* their completions recorded A then B.
C28_ReportOrder ==
    \A l \in Lists :
        LET waits == WaitIds(l.plan, Len(l.plan))
        IN  /\ Len(l.reports) <= Len(waits)
            /\ l.reports = SubSeq(waits, 1, Len(l.reports))
            /\ \A i \in 1..Len(waits), j \in 1..Len(waits) :
                  i < j => MapPos(l.tasks, waits[i]) < MapPos(l.tasks, waits[j])
            /\ l.tasks = RunBeforeExample =>
                  /\ IsPrefix(l.runLog, << TaskKey(l.tasks, 2), "a" >>)
                  /\ IsPrefix(l.reports, << "a", TaskKey(l.tasks, 2) >>)

\* the example list has returned with both reports, B's command having
\* been run first
C28_Witness ==
    \E l \in Lists :
        /\ l.tasks = RunBeforeExample
        /\ l.cstate = "returned"
        /\ l.runLog = << TaskKey(l.tasks, 2), "a" >>
        /\ l.reports = << "a", TaskKey(l.tasks, 2) >>

\* the report holds errors of validateArgs or validateExpect
HasValidationErrors(tr) ==
    InSeq(tr.errors, ErrInvalidRun) \/ InSeq(tr.errors, ErrInvalidExpect)

\* C29: when validateArgs or validateExpect returns an error for a task,
\* the command's run is never invoked for it, its latch is resolved, its
\* promise resolves with a report that holds the header and the validation
\* errors, and no set step is made (result and setArgs stay null, ctx.params
\* is not assigned).
C29_ValidationErrors ==
    \A l \in Lists : \A k \in DOMAIN l.run :
        LET tr == l.run[k]
        IN  HasValidationErrors(tr) =>
                /\ ~tr.ran /\ ~tr.setDone
                /\ tr.ready
                /\ tr.tpc = "done"
                /\ tr.phase = "validation" /\ tr.thrown = "none"
                /\ Len(tr.errors) = 2

\* the coordinator has gone on to the wait step of a task stopped by
\* validation errors and recorded its report
C29_Witness ==
    \E l \in Lists : \E k \in DOMAIN l.run :
        /\ HasValidationErrors(l.run[k])
        /\ InSeq(l.reports, k)
        /\ l.errorCount = 1


\* the task at position p sets token from "$.body.token" over the result
\* {body: {token: "xyz"}}, and the next task has args.auth = "${token}"
PropagationExample(tasks, p) ==
    /\ p + 1 \in 1..Len(tasks)
    /\ tasks[p].set /\ tasks[p].setArgs = SetByPath
    /\ tasks[p].returns = { TokenResult }
    /\ tasks[p + 1].args = AuthArgs
    /\ tasks[p].runBeforeAsync = NoId /\ tasks[p + 1].runBeforeAsync = NoId

\* C21: when a task with set: {token: "$.body.token"} has returned the
\* result {body: {token: "xyz"}} and made its set step, the next task of
\* the list with args.auth = "${token}", started after it, is run with
\* runArgs.auth = "xyz".
C21_ParameterPropagation ==
    \A l \in Lists : \A p \in 1..Len(l.tasks) :
        LET k == TaskKey(l.tasks, p)
            n == TaskKey(l.tasks, p + 1)
        IN  ( /\ UniqueIds(l.tasks)
              /\ PropagationExample(l.tasks, p)
              /\ l.run[k].setDone /\ InSeq(l.reports, k)
              /\ l.run[n].ran ) =>
                l.run[n].runArgs = Prop("auth", Str(<< Text("xyz") >>))

\* C30: in a list with unique ids and no runBeforeAsync cycle, a task
\* whose run step is executed before the wait step of every task of the
\* list (no report is recorded yet) has runArgs interpolated from the
\* params the list was called with: it sees no set value of another task,
\* even if that task's command has finished.
C30_SetOnlyAfterWait ==
    \A l \in Lists : \A k \in DOMAIN l.run :
        ( /\ UniqueIds(l.tasks) /\ Acyclic(l.tasks)
          /\ l.reports = << >> /\ l.run[k].runArgs # Null ) =>
            l.run[k].runArgs = ResolveArgs(top.params, MapTask(l.tasks, k).args)

\* the index of the step of this kind for key k in the plan
StepIndex(plan, kind, k) ==
    CHOOSE j \in 1..Len(plan) : plan[j].kind = kind /\ plan[j].id = k

\* the task at position p names its own id in runBeforeAsync
NamesItself(tasks, p) ==
    tasks[p].id # NoId /\ tasks[p].runBeforeAsync = tasks[p].id

\* every runBeforeAsync of the list names the task's own id
OnlySelfNamed(tasks) ==
    \A p \in 1..Len(tasks) :
        tasks[p].runBeforeAsync # NoId => NamesItself(tasks, p)

\* C31: in a list with unique ids, a task at position p (index i = p - 1)
\* that names its own id in runBeforeAsync is accepted by the dependency
\* check and gets runOrder i * 1000 - 1: its run step stands after the
\* wait step of the task before it and before its own wait step; where no
\* task names another one, the call of runTaskList never rejects.
C31_SelfDependency ==
    \A l \in Lists : \A p \in 1..Len(l.tasks) :
        (UniqueIds(l.tasks) /\ NamesItself(l.tasks, p)) =>
            LET k == TaskKey(l.tasks, p)
            IN  /\ OnlySelfNamed(l.tasks) => DependenciesFound(l.tasks)
                /\ RunOrder(l.tasks)[k] = ((p - 1) * OrderStride) - 1
                /\ StepIndex(l.plan, "run", k) < StepIndex(l.plan, "wait", k)
                /\ p > 1 =>
                      StepIndex(l.plan, "wait", TaskKey(l.tasks, p - 1))
                          < StepIndex(l.plan, "run", k)
                /\ OnlySelfNamed(l.tasks) => l.cstate # "rejected"

\* a list of two tasks, the second naming itself, has returned with both
\* reports
C31_Witness ==
    \E l \in Lists :
        /\ Len(l.tasks) = 2
        /\ UniqueIds(l.tasks)
        /\ NamesItself(l.tasks, 2)
        /\ l.cstate = "returned"
        /\ l.reports = << TaskKey(l.tasks, 1), TaskKey(l.tasks, 2) >>

\* C32: in every list that passes the dependency check of validateTaskList
\* (here with unique ids and no runBeforeAsync cycle), the plan has the
\* run step of each task before its wait step, and the call of runTaskList
\* never rejects for awaiting a task that was not started.
C32_RunBeforeWait ==
    \A l \in Lists :
        (DependenciesFound(l.tasks) /\ UniqueIds(l.tasks) /\ Acyclic(l.tasks)) =>
            /\ \A k \in DOMAIN l.run :
                  StepIndex(l.plan, "run", k) < StepIndex(l.plan, "wait", k)
            /\ l.cstate # "rejected"

\* no task of the list defines runBeforeAsync
NoDependencies(tasks) ==
    \A p \in 1..Len(tasks) : tasks[p].runBeforeAsync = NoId

\* C33: for every list without runBeforeAsync (which passes the dependency
\* check of validateTaskList), the plan holds two steps per task of the list (one
\* run step, one wait step), and a call that returns without termination
\* has executed as many run steps as the list has tasks; also when two
\* tasks carry the same id.
C33_TwoStepsPerTask ==
    \A l \in Lists :
        (DependenciesFound(l.tasks) /\ NoDependencies(l.tasks)) =>
            /\ Len(l.plan) = 2 * Len(l.tasks)
            /\ (l.cstate = "returned" /\ ~l.shouldTerminate) =>
                  Len(l.runLog) = Len(l.tasks)

\* C34: when runTaskList has returned (list with unique ids and no
\* runBeforeAsync cycle), no task it started is still running: no call of
\* runTask is pending.
C34_NothingRunningOnReturn ==
    \A l \in Lists :
        (UniqueIds(l.tasks) /\ Acyclic(l.tasks) /\ l.cstate = "returned") =>
            \A k \in DOMAIN l.run : l.run[k].tpc # "pending"

\* the phases a task passes before its set step
BeforeSet == { "validation", "run", "expect" }

\* (as first stated) the set step has assigned to ctx.params if and only
\* if the task defines set and no exception was thrown in its run and
\* expect phases (nor before them)
C37_SetUnlessThrownBefore ==
    \A l \in Lists : \A k \in DOMAIN l.run :
        l.run[k].tpc = "done" =>
            (l.run[k].setDone <=>
                /\ MapTask(l.tasks, k).set
                /\ l.run[k].ran
                /\ l.run[k].thrown \notin BeforeSet)

\* the same with the set phase counted among the phases that may throw
C37_SetIff ==
    \A l \in Lists : \A k \in DOMAIN l.run :
        l.run[k].tpc = "done" =>
            (l.run[k].setDone <=>
                /\ MapTask(l.tasks, k).set
                /\ l.run[k].ran
                /\ l.run[k].thrown = "none")

\* ctx.params changes only in the step in which a set step is made, and
\* then by the assignment of the interpolated set mapping
C37_ParamsBySet ==
    \A e \in DOMAIN ex :
        /\ ex'[e].params # ex[e].params =>
              \E k \in DOMAIN ex[e].run :
                  ~ex[e].run[k].setDone /\ ex'[e].run[k].setDone
        /\ \A k \in DOMAIN ex[e].run :
              (~ex[e].run[k].setDone /\ ex'[e].run[k].setDone) =>
                  ex'[e].params =
                      Assign(ex[e].params,
                             SetArgs(ex'[e].run[k].result, MapTask(ex[e].tasks, k).setArgs))

\* C37: a finished task has assigned to ctx.params if and only if it
\* defines set, its command was run, and no exception was thrown in any
\* phase, the set phase included; assertion errors returned by expect do
\* not prevent it; ctx.params changes in no other way.
C37_SetStep == []C37_SetIff /\ [][C37_ParamsBySet]_vars

\* a task whose expect returned an assertion error has set the token
C37_Witness ==
    \E l \in Lists : \E k \in DOMAIN l.run :
        /\ l.run[k].setDone
        /\ l.run[k].errors = << "assertion error" >>
        /\ l.params # top.params
        /\ l.params = Prop("token", Str(<< Text("xyz") >>))

\* -------------------------------------------------------------- Repository

\* JavaScript's null, and the booleans beside it, for fields that hold
\* either
JsNull == "null"
JsBool(b) == IF b THEN "true" ELSE "false"
\* (mutant) nothing is truthy
TruthyNever(v) == FALSE

\* the value counts as true in a condition
Truthy(v) == v = "true"
\* a || b
JsOr(a, b) == IF Truthy(a) THEN a ELSE b

\* schema of an entry no document has claimed
NullSchema == [null |-> TRUE]

\* ITest and ITestSet: the fields the Runner's control flow depends on.
\* name is the dotted name, split.
Test(skip, tasks) == [skip |-> skip, tasks |-> tasks]

Document(name, skip, order, beforeAll, afterAll, beforeEach, afterEach, tsts) ==
    [name |-> name, skip |-> skip, executionOrder |-> order,
     beforeAll |-> beforeAll, afterAll |-> afterAll,
     beforeEach |-> beforeEach, afterEach |-> afterEach, tests |-> tsts]

RootPath == << >>

Parent(path) == SubSeq(path, 1, Len(path) - 1)

\* the entry the constructor makes for the root
RootEntry ==
    [schema |-> NullSchema, path |-> RootPath, skip |-> JsBool(FALSE),
     tags |-> << >>, defaults |-> EmptyObject, params |-> EmptyObject,
     beforeEachTasks |-> << >>, afterEachTasks |-> << >>,
     beforeAllTasks |-> << >>, afterAllTasks |-> << >>,
     tests |-> << >>, children |-> << >>]

\* the entry resolveSetEntry makes for a name it meets first
NewEntry(path) ==
    [schema |-> NullSchema, path |-> path, skip |-> JsNull,
     tags |-> << >>, defaults |-> EmptyObject, params |-> EmptyObject,
     beforeEachTasks |-> << >>, afterEachTasks |-> << >>,
     beforeAllTasks |-> << >>, afterAllTasks |-> << >>,
     tests |-> << >>, children |-> << >>]

\* The nodes of the tree: entries by path; children holds the keys of
\* entry.children in insertion order.
NewRepository == [p \in {RootPath} |-> RootEntry]

\* (mutant) resolveSetEntry makes every entry of the path anew
RECURSIVE ResolveSetEntryAnew(_, _, _)
ResolveSetEntryAnew(nodes, path, i) ==
    IF i > Len(path) THEN nodes
    ELSE LET p == SubSeq(path, 1, i)
         IN  ResolveSetEntryAnew(
                [q \in DOMAIN nodes \cup {p} |->
                    IF q = p THEN NewEntry(p)
                    ELSE IF q = Parent(p) /\ p \notin DOMAIN nodes
                         THEN [nodes[q] EXCEPT !.children = Append(@, path[i])]
                         ELSE nodes[q]],
                path, i + 1)

\* resolveSetEntry: walk the path from the root, making what is missing
RECURSIVE ResolveSetEntry(_, _, _)
ResolveSetEntry(nodes, path, i) ==
    IF i > Len(path) THEN nodes
    ELSE LET p == SubSeq(path, 1, i)
         IN  IF p \in DOMAIN nodes
             THEN ResolveSetEntry(nodes, path, i + 1)
             ELSE ResolveSetEntry(
                    [q \in DOMAIN nodes \cup {p} |->
                        IF q = p THEN NewEntry(p)
                        ELSE IF q = Parent(p)
                             THEN [nodes[q] EXCEPT !.children = Append(@, path[i])]
                             ELSE nodes[q]],
                    path, i + 1)

\* setEntry.id: "$" for the root, parent.id + "." + name below it
RECURSIVE EntryId(_)
EntryId(path) ==
    IF path = RootPath THEN "$"
    ELSE EntryId(Parent(path)) \o "." \o path[Len(path)]

\* an IValidationError: the document (its filename), the id and what the
\* message is about
ValidationError(file, id, about) == [document |-> file, id |-> id, about |-> about]

\* (mutant) no task is looked up in the registry
ValidateTaskUnchecked(file, id, task) == << >>

\* validateTask: the errors it pushes.  Both validators are given
\* task.args.
ValidateTask(file, id, task) ==
    IF task.do \notin Commands
    THEN << ValidationError(file, id, "command") >>
    ELSE (IF ArgsValidator(task.do, task.args) THEN << >>
          ELSE << ValidationError(file, id, "args") >>)
         \o (IF ExpectValidator(task.do, task.args) THEN << >>
             ELSE << ValidationError(file, id, "expect") >>)

\* (mutant) validateTaskList without the search for the target
DependencyFoundAlways(tasks, p) == TRUE

\* "Validate dependencies" for the task at position p
DependencyFound(tasks, p) ==
    tasks[p].runBeforeAsync # NoId =>
        \E q \in 1..Len(tasks) : tasks[q].id = tasks[p].runBeforeAsync

\* validateTaskList: the errors it pushes, from position p on
RECURSIVE ValidateTaskList(_, _, _, _)
ValidateTaskList(file, parentId, tasks, p) ==
    IF p > Len(tasks) THEN << >>
    ELSE LET taskId == parentId \o ".tasks[" \o ToString(p - 1) \o "]"
             own == ValidateTask(file, taskId, tasks[p])
         IN  (IF own # << >> THEN own
              ELSE IF DependencyFound(tasks, p) THEN << >>
              ELSE << ValidationError(file, taskId, "dependency") >>)
             \o ValidateTaskList(file, parentId, tasks, p + 1)

RECURSIVE ValidateTests(_, _, _, _)
ValidateTests(file, setId, tsts, i) ==
    IF i > Len(tsts) THEN << >>
    ELSE ValidateTaskList(file, setId \o ".tests[" \o ToString(i - 1) \o "]",
                          tsts[i].tasks, 1)
         \o ValidateTests(file, setId, tsts, i + 1)

\* "Validate tasks" and "Load tests" of loadTestSet: the errors pushed
TaskErrors(file, doc) ==
    LET setId == EntryId(doc.name)
    IN  ValidateTaskList(file, setId \o "#beforeAll", doc.beforeAll, 1)
        \o ValidateTaskList(file, setId \o "#afterAll", doc.afterAll, 1)
        \o ValidateTaskList(file, setId \o "#beforeEach", doc.beforeEach, 1)
        \o ValidateTaskList(file, setId \o "#afterEach", doc.afterEach, 1)
        \o ValidateTests(file, setId, doc.tests, 1)

\* isOk of loadTestSet after the validation of the task lists
TaskListsValid(doc) == TaskErrors(0, doc) = << >>

\* (mutant) loadTestSet assigns schema and tests whatever isOk says
LoadTestSetUnchecked(nodes, doc) ==
    LET resolved == ResolveSetEntry(nodes, doc.name, 1)
    IN  IF resolved[doc.name].schema # NullSchema
        THEN resolved
        ELSE [resolved EXCEPT
                ![doc.name].schema = doc,
                ![doc.name].tests =
                    [i \in 1..Len(doc.tests) |->
                        [schema |-> doc.tests[i], skip |-> JsNull,
                         tags |-> << >>, defaults |-> EmptyObject,
                         params |-> EmptyObject,
                         tasks |-> doc.tests[i].tasks]]]

\* loadTestSet for a document that passes the schema validator
LoadTestSet(nodes, doc) ==
    LET resolved == ResolveSetEntry(nodes, doc.name, 1)
    IN  IF resolved[doc.name].schema # NullSchema
        THEN resolved
        ELSE IF TaskListsValid(doc)
             THEN [resolved EXCEPT
                     ![doc.name].schema = doc,
                     ![doc.name].tests =
                         [i \in 1..Len(doc.tests) |->
                             [schema |-> doc.tests[i], skip |-> JsNull,
                              tags |-> << >>, defaults |-> EmptyObject,
                              params |-> EmptyObject,
                              tasks |-> doc.tests[i].tasks]]]
             ELSE resolved

\* An ITestDocument: the file, its parsed content, and whether the content
\* passes the schema validator.
TestDocument(file, doc, schemaValid) ==
    [filename |-> file, document |-> doc, schemaValid |-> schemaValid]

\* (mutant) no check for duplicity
IsDuplicateNever(nodes, doc) == FALSE

\* the set name is claimed by a document loaded before
IsDuplicate(nodes, doc) ==
    doc.name \in DOMAIN nodes /\ nodes[doc.name].schema # NullSchema

\* loadTestSet: the errors it pushes
LoadErrors(nodes, tdoc) ==
    IF ~tdoc.schemaValid
    THEN << ValidationError(tdoc.filename, JsNull, "schema") >>
    ELSE IF IsDuplicate(nodes, tdoc.document)
    THEN << ValidationError(tdoc.filename, EntryId(tdoc.document.name), "duplicate") >>
    ELSE TaskErrors(tdoc.filename, tdoc.document)

\* loadTestSet: the tree it leaves
LoadTestDocument(nodes, tdoc) ==
    IF tdoc.schemaValid THEN LoadTestSet(nodes, tdoc.document) ELSE nodes

\* loadDocuments
RECURSIVE LoadDocuments(_, _, _)
LoadDocuments(nodes, docs, i) ==
    IF i > Len(docs) THEN nodes
    ELSE LoadDocuments(LoadTestSet(nodes, docs[i]), docs, i + 1)

\* schema.params || {}: params is optional in a document and in a test
SchemaParams(schema) ==
    IF "params" \in DOMAIN schema THEN schema.params ELSE EmptyObject

\* schema.tags || [] and schema.defaults || {}
SchemaTags(schema) ==
    IF "tags" \in DOMAIN schema THEN schema.tags ELSE << >>

SchemaDefaults(schema) ==
    IF "defaults" \in DOMAIN schema THEN schema.defaults ELSE EmptyObject

\* (mutant) buildTestSet appends to the tags and hook lists the entry has
BuildEntryAppending(nodes, path) ==
    LET e == nodes[path]
        merged ==
            IF path # RootPath /\ e.schema # NullSchema
            THEN LET par == nodes[Parent(path)]
                 IN  [e EXCEPT
                        !.tags = e.tags \o par.tags \o SchemaTags(e.schema),
                        !.defaults = SchemaDefaults(e.schema),
                        !.params = SchemaParams(e.schema),
                        !.beforeAllTasks = e.schema.beforeAll,
                        !.afterAllTasks = e.schema.afterAll,
                        !.beforeEachTasks =
                            e.beforeEachTasks \o par.beforeEachTasks \o e.schema.beforeEach,
                        !.afterEachTasks =
                            e.afterEachTasks \o par.afterEachTasks \o e.schema.afterEach,
                        !.skip = JsOr(par.skip, JsBool(e.schema.skip))]
            ELSE e
    IN  [merged EXCEPT
            !.tests = [i \in 1..Len(merged.tests) |->
                         [merged.tests[i] EXCEPT
                            !.tags = merged.tags \o SchemaTags(merged.tests[i].schema),
                            !.defaults = SchemaDefaults(merged.tests[i].schema),
                            !.params = SchemaParams(merged.tests[i].schema),
                            !.skip = JsOr(merged.skip,
                                          JsBool(merged.tests[i].schema.skip))]]]

\* buildTestSet of one entry: the values merged from the parent (for a
\* claimed entry that has a parent), then the entry's tests
BuildEntry(nodes, path) ==
    LET e == nodes[path]
        merged ==
            IF path # RootPath /\ e.schema # NullSchema
            THEN LET par == nodes[Parent(path)]
                 IN  [e EXCEPT
                        !.tags = par.tags \o SchemaTags(e.schema),
                        !.defaults = SchemaDefaults(e.schema),
                        !.params = SchemaParams(e.schema),
                        !.beforeAllTasks = e.schema.beforeAll,
                        !.afterAllTasks = e.schema.afterAll,
                        !.beforeEachTasks = par.beforeEachTasks \o e.schema.beforeEach,
                        !.afterEachTasks = par.afterEachTasks \o e.schema.afterEach,
                        !.skip = JsOr(par.skip, JsBool(e.schema.skip))]
            ELSE e
    IN  [merged EXCEPT
            !.tests = [i \in 1..Len(merged.tests) |->
                         [merged.tests[i] EXCEPT
                            !.tags = merged.tags \o SchemaTags(merged.tests[i].schema),
                            !.defaults = SchemaDefaults(merged.tests[i].schema),
                            !.params = SchemaParams(merged.tests[i].schema),
                            !.skip = JsOr(merged.skip,
                                          JsBool(merged.tests[i].schema.skip))]]]

\* buildTestSet: the entry, then its children in key order
RECURSIVE BuildTestSet(_, _), BuildChildren(_, _, _)
BuildTestSet(nodes, path) ==
    BuildChildren([nodes EXCEPT ![path] = BuildEntry(nodes, path)], path, 1)

BuildChildren(nodes, path, j) ==
    IF j > Len(nodes[path].children) THEN nodes
    ELSE BuildChildren(
            BuildTestSet(nodes, Append(path, nodes[path].children[j])),
            path, j + 1)

\* build
Build(nodes) == BuildTestSet(nodes, RootPath)

ChildPaths(nodes, path) ==
    [j \in 1..Len(nodes[path].children) |-> Append(path, nodes[path].children[j])]


\* ------------------------------------------------------ the Runner's state

\* a JavaScript number that may be NaN
Num(n) == [nan |-> FALSE, n |-> n]
NaN == [nan |-> TRUE, n |-> 0]
Plus(a, b) == IF a.nan \/ b.nan THEN NaN ELSE Num(a.n + b.n)

\* testSet.testCount of a set entry as an addend: the Repository never
\* assigns the property, and undefined adds as NaN
TestCountOf(entry) == NaN

\* acc += val[c], once for every c of S
RECURSIVE PlusEach(_, _, _)
PlusEach(acc, S, val) ==
    IF S = {} THEN acc
    ELSE LET c == CHOOSE c \in S : TRUE
         IN  PlusEach(Plus(acc, val[c]), S \ {c}, val)

RECURSIVE SumOver(_, _)
SumOver(S, val) ==
    IF S = {} THEN 0
    ELSE LET c == CHOOSE c \in S : TRUE
         IN  val[c] + SumOver(S \ {c}, val)

\* the entities that call runTaskList: a set entry (test = 0) or the test
\* at an index of its tests (from 1)
SetEnt(path) == [set |-> path, test |-> 0]
TestEnt(path, i) == [set |-> path, test |-> i]

SetPaths(nodes) == DOMAIN nodes \ {RootPath}

TestEnts(nodes) ==
    UNION { { TestEnt(p, i) : i \in 1..Len(nodes[p].tests) } : p \in SetPaths(nodes) }

\* the errors in the TaskReports of the report a list returns
ListErrors(l) ==
    LET keys == { l.reports[j] : j \in 1..Len(l.reports) }
    IN  SumOver(keys, [k \in keys |-> Len(l.run[k].errors)])

\* no call of runTaskList yet
IdleList == [NewList(<< >>) EXCEPT !.cstate = "idle"]

\* A call of runTestSet.
\*   pc   "idle": not called; "beforeAll", "afterAll": awaiting that list;
\*        "awaitTest": awaiting the test at index k (sync); "awaitTests",
\*        "awaitChildren": awaiting Promise.all of the tests, of the child
\*        sets; "done": returned; "rejected"
\*   testCount, skippedCount, errorCount  the fields of testSetReport
\*   launchedTests, launchedChildren      testPromises, childSetPromises
\*   begun, complete     TestSetBegin, TestSetComplete were logged for it
\*   skipLogged          how often logTestSetSkip was called with this entry
\*   beforeDone, beforeErrors, afterStarted   what happened: the beforeAll
\*        list has returned, with this errorCount; the afterAll list was
\*        started
\*   taskErrors          the errors in the TaskReports of beforeTasks and
\*        afterTasks
IdleSet ==
    [pc |-> "idle", k |-> 0, testCount |-> 0, skippedCount |-> Num(0),
     errorCount |-> 0, launchedTests |-> {}, launchedChildren |-> {},
     begun |-> FALSE, complete |-> FALSE, skipLogged |-> 0,
     beforeDone |-> FALSE, beforeErrors |-> 0, afterStarted |-> FALSE,
     taskErrors |-> 0]

\* runTestSet from its call to await runTaskList(beforeAllTasks)
StartedSet(entry) ==
    [IdleSet EXCEPT !.pc = "beforeAll", !.begun = TRUE,
                    !.testCount = Len(entry.tests)]

\* A call of runTest.
\*   pc   "idle", "before", "body", "after" (awaiting that list), "done",
\*        "rejected"
\*   errorCount          testReport.errorCount
\*   begun, complete, skipLogged   TestBegin, TestComplete, TestSkip logged
\*   nBefore, nBody, nAfter        how often each list was started
\*   beforeDone, beforeErrors, bodyDone   the beforeEach list has returned,
\*        with this errorCount; the test's own list has returned
\*   taskErrors          the errors in the TaskReports of beforeTasks, tasks
\*        and afterTasks
IdleTest ==
    [pc |-> "idle", errorCount |-> 0, begun |-> FALSE, complete |-> FALSE,
     skipLogged |-> FALSE, nBefore |-> 0, nBody |-> 0, nAfter |-> 0,
     beforeDone |-> FALSE, beforeErrors |-> 0, bodyDone |-> FALSE,
     taskErrors |-> 0]

\* runTest from its call to await runTaskList(beforeEachTasks)
StartedTest == [IdleTest EXCEPT !.pc = "before", !.begun = TRUE, !.nBefore = 1]

\* The call of Runner.run: pc "idle", "await" (Promise.all of the root
\* sets), "done", "rejected"; the counters of the CompleteReport.
IdleTop ==
    [pc |-> "idle", testCount |-> 0, skippedCount |-> Num(0), errorCount |-> 0,
     launched |-> {}]

\* params of defaultCtx, the context Runner.run hands to the root sets
DefaultParams == EmptyObject

\* ctx.params of the context deepMerge(clone(ctx), {defaults, params})
\* makes for an entry
ChildParams(params, entry) == DeepMerge(params, entry.params)

\* (mutant) runTest hands the set's context object on to its lists
TestContextShared(s) == [own |-> FALSE, of |-> SetEnt(s)]

\* childCtx of runTest for a test of set s: a new object
TestContext(s) == OwnContext

\* runTaskList called with a context made for the entity
CallList(tasks, params, ctx) ==
    [NewList(tasks) EXCEPT !.params = params, !.ctx = ctx]

\* runTaskList called with the context of the entity's list before
NextList(before, tasks) == CallList(tasks, before.params, before.ctx)

\* --------------------------------------------------------------- runTest

\* (mutant) the test's own list is run whatever beforeEach reported
BodyIsRunAlways(errorCount) == TRUE

\* testReport.errorCount === 0 after the beforeEach list
BodyIsRun(errorCount) == errorCount = 0

TestBeforeReturned(t) ==
    /\ tests[t].pc = "before"
    /\ ex[t].cstate = "returned"
    /\ LET errs == tests[t].errorCount + ex[t].errorCount
           after == [tests[t] EXCEPT !.errorCount = errs, !.beforeDone = TRUE,
                                     !.beforeErrors = ex[t].errorCount,
                                     !.taskErrors = @ + ListErrors(ex[t])]
       IN  IF BodyIsRun(errs)
           THEN /\ tests' = [tests EXCEPT ![t] =
                                [after EXCEPT !.pc = "body", !.nBody = @ + 1]]
                /\ ex' = [ex EXCEPT ![t] = NextList(@, tree[t.set].tests[t.test].tasks)]
           ELSE /\ tests' = [tests EXCEPT ![t] =
                                [after EXCEPT !.pc = "after", !.nAfter = @ + 1]]
                /\ ex' = [ex EXCEPT ![t] = NextList(@, tree[t.set].afterEachTasks)]
    /\ UNCHANGED << tree, sets, top >>

TestBodyReturned(t) ==
    /\ tests[t].pc = "body"
    /\ ex[t].cstate = "returned"
    /\ tests' = [tests EXCEPT ![t].errorCount = @ + ex[t].errorCount,
                              ![t].taskErrors = @ + ListErrors(ex[t]),
                              ![t].bodyDone = TRUE,
                              ![t].pc = "after",
                              ![t].nAfter = @ + 1]
    /\ ex' = [ex EXCEPT ![t] = NextList(@, tree[t.set].afterEachTasks)]
    /\ UNCHANGED << tree, sets, top >>

TestAfterReturned(t) ==
    /\ tests[t].pc = "after"
    /\ ex[t].cstate = "returned"
    /\ tests' = [tests EXCEPT ![t].errorCount = @ + ex[t].errorCount,
                              ![t].taskErrors = @ + ListErrors(ex[t]),
                              ![t].complete = TRUE,
                              ![t].pc = "done"]
    /\ UNCHANGED << ex, tree, sets, top >>

\* an awaited runTaskList rejects: runTest has no try block
TestRejected(t) ==
    /\ tests[t].pc \in {"before", "body", "after"}
    /\ ex[t].cstate = "rejected"
    /\ tests' = [tests EXCEPT ![t].pc = "rejected"]
    /\ UNCHANGED << ex, tree, sets, top >>

\* ------------------------------------------------------------ runTestSet

Range(seq) == { seq[j] : j \in 1..Len(seq) }

Min(S) == CHOOSE x \in S : \A y \in S : x <= y

\* (mutant) every test is awaited where it is started
AwaitsEachTestAlways(entry) == TRUE

\* testSet.schema.executionOrder === "sync"
AwaitsEachTest(entry) == entry.schema.executionOrder = "sync"

\* The loop over testSet.tests from index `from` to its next await: the
\* await of a started test in a set that awaits each test, else through
\* the loop over the children to await Promise.all(testPromises). base is
\* sets with what the caller has assigned.
RunTests(s, from, base) ==
    LET e == tree[s]
        rest == from..Len(e.tests)
        running == { i \in rest : ~Truthy(e.tests[i].skip) }
        stop == IF running # {} /\ AwaitsEachTest(e) THEN Min(running) ELSE 0
        seen == IF stop = 0 THEN rest ELSE from..stop
        skipped == { i \in seen : Truthy(e.tests[i].skip) }
        started == seen \ skipped
        kids == IF stop = 0 THEN Range(ChildPaths(tree, s)) ELSE {}
        skippedKids == { c \in kids : Truthy(tree[c].skip) }
        startedKids == kids \ skippedKids
    IN  /\ sets' = [q \in DOMAIN sets |->
                      IF q = s
                      THEN [base[s] EXCEPT
                              !.pc = IF stop = 0 THEN "awaitTests" ELSE "awaitTest",
                              !.k = stop,
                              !.skippedCount =
                                  PlusEach(Plus(@, Num(Cardinality(skipped))),
                                           skippedKids,
                                           [c \in skippedKids |-> TestCountOf(tree[c])]),
                              !.launchedTests = @ \cup started,
                              !.launchedChildren = startedKids,
                              \* logTestSetSkip(testSet): the set itself
                              !.skipLogged = @ + Cardinality(skippedKids)]
                      ELSE IF q \in startedKids THEN StartedSet(tree[q])
                      ELSE base[q]]
        /\ tests' = [t \in DOMAIN tests |->
                       IF t.set = s /\ t.test \in skipped
                       THEN [tests[t] EXCEPT !.skipLogged = TRUE]
                       ELSE IF t.set = s /\ t.test \in started THEN StartedTest
                       ELSE tests[t]]
        /\ ex' = [x \in DOMAIN ex |->
                    IF x.set = s /\ x.test \in started
                    THEN CallList(e.beforeEachTasks,
                                  ChildParams(Params(ex[SetEnt(s)]), e.tests[x.test]),
                                  TestContext(s))
                    ELSE IF x.test = 0 /\ x.set \in startedKids
                    THEN CallList(tree[x.set].beforeAllTasks,
                                  ChildParams(Params(ex[SetEnt(s)]), tree[x.set]),
                                  OwnContext)
                    ELSE ex[x]]

\* "Run after all tasks", to the await of the list
RunAfterAll(s, base) ==
    /\ sets' = [base EXCEPT ![s].pc = "afterAll", ![s].afterStarted = TRUE]
    /\ ex' = [ex EXCEPT ![SetEnt(s)] = NextList(@, tree[s].afterAllTasks)]
    /\ tests' = tests

\* the states of the promises runTestSet is awaiting
Awaited(s) ==
    LET r == sets[s]
    IN  CASE r.pc \in {"beforeAll", "afterAll"} -> { ex[SetEnt(s)].cstate }
          [] r.pc = "awaitTest" -> { tests[TestEnt(s, r.k)].pc }
          [] r.pc = "awaitTests" -> { tests[TestEnt(s, i)].pc : i \in r.launchedTests }
          [] r.pc = "awaitChildren" -> { sets[c].pc : c \in r.launchedChildren }
          [] OTHER -> { "none" }

\* (mutant) go on unless a promise has rejected
NoneRejected(states) == "rejected" \notin states

\* every awaited promise is fulfilled
Fulfilled(states) == states \subseteq {"returned", "done"}

\* (mutant) tests and child sets are run whatever beforeAll reported
TestsAreRunAlways(errorCount) == TRUE

\* testSetReport.errorCount === 0 after the beforeAll list
TestsAreRun(errorCount) == errorCount = 0

SetBeforeAllReturned(s) ==
    /\ sets[s].pc = "beforeAll"
    /\ Fulfilled(Awaited(s))
    /\ LET errs == ex[SetEnt(s)].errorCount
           base == [sets EXCEPT ![s].errorCount = @ + errs,
                                ![s].taskErrors = @ + ListErrors(ex[SetEnt(s)]),
                                ![s].beforeDone = TRUE,
                                ![s].beforeErrors = errs]
       IN  IF TestsAreRun(base[s].errorCount)
           THEN RunTests(s, 1, base)
           ELSE RunAfterAll(s, base)
    /\ UNCHANGED << tree, top >>

\* await testPromise in a set that awaits each test
SetTestReturned(s) ==
    /\ sets[s].pc = "awaitTest"
    /\ Fulfilled(Awaited(s))
    /\ RunTests(s, sets[s].k + 1, sets)
    /\ UNCHANGED << tree, top >>

\* await Promise.all(testPromises)
SetTestsJoined(s) ==
    /\ sets[s].pc = "awaitTests"
    /\ Fulfilled(Awaited(s))
    /\ sets' = [sets EXCEPT ![s].pc = "awaitChildren"]
    /\ UNCHANGED << ex, tree, tests, top >>

\* await Promise.all(childSetPromises), the merge of the counts, and on
\* to the afterAll list
SetChildrenJoined(s) ==
    /\ sets[s].pc = "awaitChildren"
    /\ Fulfilled(Awaited(s))
    /\ LET r == sets[s]
           kids == r.launchedChildren
           mine == { TestEnt(s, i) : i \in r.launchedTests }
       IN  RunAfterAll(s,
             [sets EXCEPT
                ![s].errorCount =
                    @ + SumOver(mine, [t \in mine |-> tests[t].errorCount])
                      + SumOver(kids, [c \in kids |-> sets[c].errorCount]),
                ![s].testCount =
                    @ + SumOver(kids, [c \in kids |-> sets[c].testCount]),
                ![s].skippedCount =
                    PlusEach(@, kids, [c \in kids |-> sets[c].skippedCount])])
    /\ UNCHANGED << tree, top >>

SetAfterAllReturned(s) ==
    /\ sets[s].pc = "afterAll"
    /\ Fulfilled(Awaited(s))
    /\ sets' = [sets EXCEPT ![s].errorCount = @ + ex[SetEnt(s)].errorCount,
                            ![s].taskErrors = @ + ListErrors(ex[SetEnt(s)]),
                            ![s].complete = TRUE,
                            ![s].pc = "done"]
    /\ UNCHANGED << ex, tree, tests, top >>

\* an awaited promise rejects: runTestSet has no try block
SetRejected(s) ==
    /\ "rejected" \in Awaited(s)
    /\ sets' = [sets EXCEPT ![s].pc = "rejected"]
    /\ UNCHANGED << ex, tree, tests, top >>

\* ------------------------------------------------------------ Runner.run

RootSets == Range(ChildPaths(tree, RootPath))

\* run to await Promise.all(testSetPromises)
RunBegin ==
    /\ top.pc = "idle"
    /\ LET skippedSets == { c \in RootSets : Truthy(tree[c].skip) }
           startedSets == RootSets \ skippedSets
       IN  /\ top' = [top EXCEPT
                        !.pc = "await",
                        !.skippedCount =
                            PlusEach(@, skippedSets,
                                     [c \in skippedSets |-> TestCountOf(tree[c])]),
                        !.launched = startedSets]
           /\ sets' = [q \in DOMAIN sets |->
                         IF q \in skippedSets
                         THEN [sets[q] EXCEPT !.skipLogged = @ + 1]
                         ELSE IF q \in startedSets THEN StartedSet(tree[q])
                         ELSE sets[q]]
           /\ ex' = [x \in DOMAIN ex |->
                       IF x.test = 0 /\ x.set \in startedSets
                       THEN CallList(tree[x.set].beforeAllTasks,
                                     ChildParams(DefaultParams, tree[x.set]),
                                     OwnContext)
                       ELSE ex[x]]
    /\ UNCHANGED << tree, tests >>

\* "Aggergate counters" and return
RunJoined ==
    /\ top.pc = "await"
    /\ \A c \in top.launched : sets[c].pc = "done"
    /\ LET S == top.launched
       IN  top' = [top EXCEPT
                     !.pc = "done",
                     !.testCount = @ + SumOver(S, [c \in S |-> sets[c].testCount]),
                     !.skippedCount = PlusEach(@, S, [c \in S |-> sets[c].skippedCount]),
                     !.errorCount = @ + SumOver(S, [c \in S |-> sets[c].errorCount])]
    /\ UNCHANGED << ex, tree, sets, tests >>

RunRejected ==
    /\ top.pc = "await"
    /\ \E c \in top.launched : sets[c].pc = "rejected"
    /\ top' = [top EXCEPT !.pc = "rejected"]
    /\ UNCHANGED << ex, tree, sets, tests >>

RunNext ==
    \/ RunBegin
    \/ RunJoined
    \/ RunRejected
    \/ \E s \in SetPaths(tree) :
        \/ SetBeforeAllReturned(s)
        \/ SetTestReturned(s)
        \/ SetTestsJoined(s)
        \/ SetChildrenJoined(s)
        \/ SetAfterAllReturned(s)
        \/ SetRejected(s)
    \/ \E t \in TestEnts(tree) :
        \/ TestBeforeReturned(t)
        \/ TestBodyReturned(t)
        \/ TestAfterReturned(t)
        \/ TestRejected(t)
    \/ ListNext /\ UNCHANGED upper

\* ------------------------------------------ specification of a whole run

OneTask == << Task(NoId, NoId, FALSE, FALSE, FALSE) >>

\* a task that names a later task in runBeforeAsync
BeforeLater ==
    << Task(NoId, "b", FALSE, FALSE, FALSE), Task("b", NoId, FALSE, FALSE, FALSE) >>

HookLists == { << >>, OneTask }

BodyLists == { << >>, OneTask, BeforeLater }

Orders == { "sync", "async" }

RECURSIVE TaskCount(_, _)
TaskCount(tsts, i) ==
    IF i > Len(tsts) THEN 0 ELSE Len(tsts[i].tasks) + TaskCount(tsts, i + 1)

\* how many tasks the run of the document's set starts at most, with
\* `more` further tests that run the set's beforeEach and afterEach lists
Work(doc, more) ==
    Len(doc.beforeAll) + Len(doc.afterAll)
    + (Len(doc.tests) + more) * (Len(doc.beforeEach) + Len(doc.afterEach))
    + TaskCount(doc.tests, 1)

\* documents of set A: hooks, execution order and up to MaxTests tests free
DocumentsA ==
    { d \in { Document(<< "A" >>, skip, order, ba, aa, be, ae, ts) :
                skip \in BOOLEAN, order \in Orders,
                ba \in HookLists, aa \in HookLists,
                be \in HookLists, ae \in HookLists,
                ts \in ListsOf({ Test(sk, b) : sk \in BOOLEAN, b \in BodyLists },
                               MaxTests) } :
        Work(d, 0) <= MaxWork }

\* documents of A's child set C: one test, no tasks of its own
DocumentsC ==
    { Document(<< "A", "C" >>, skip, "async", << >>, << >>, << >>, << >>,
               << Test(FALSE, << >>) >>) : skip \in BOOLEAN }

\* documents of a second root set B, skipped
DocumentsB ==
    { Document(<< "B" >>, TRUE, "async", << >>, << >>, << >>, << >>,
               << Test(FALSE, << >>) >>) }

\* the document lists that are loaded: A alone, A with its child C (their
\* tests MaxTests and their tasks MaxWork at most), or an A without tasks
\* beside B
Scenarios ==
    { << a >> : a \in DocumentsA }
    \cup { << a, c >> : a \in { d \in DocumentsA :
                                  /\ Len(d.tests) < MaxTests
                                  /\ Work(d, 1) <= MaxWork },
                        c \in DocumentsC }
    \cup { << a, b >> : a \in { d \in DocumentsA : Work(d, 0) = 0 },
                        b \in DocumentsB }

\* Dexit.run: loadDocuments, build, then Runner.run(getTests()) not yet
\* called
RunInit ==
    /\ \E docs \in Scenarios :
           tree = Build(LoadDocuments(NewRepository, docs, 1))
    /\ sets = [p \in SetPaths(tree) |-> IdleSet]
    /\ tests = [t \in TestEnts(tree) |-> IdleTest]
    /\ ex = [e \in { SetEnt(p) : p \in SetPaths(tree) } \cup TestEnts(tree) |-> IdleList]
    /\ top = IdleTop

RunSpec == RunInit /\ [][RunNext]_vars

\* The whole run with progress: the event loop goes on while a callback is
\* due, and every command that was called notifies and settles.
RunLiveSpec == RunInit /\ [][RunNext]_vars /\ WF_vars(RunNext)

\* ------------------------------------ specification of a run with params

\* a task whose set step assigns the token of its result
Setter ==
    << [Task(NoId, NoId, FALSE, FALSE, TRUE) EXCEPT
           !.setArgs = SetByToken, !.returns = { TokenResult }] >>

\* a task run with the args {auth: "${token}"}
Reader == << [Task(NoId, NoId, FALSE, FALSE, FALSE) EXCEPT !.args = AuthArgs] >>

\* a document or a test that defines params
WithParams(schema, params) == [params |-> params] @@ schema

\* tests of set A: each one sets the token or reads it
ContextTests ==
    ListsOf({ Test(FALSE, Setter), Test(FALSE, Reader) }, MaxTests)

\* documents of set A, with params or without; afterAll is empty, reads
\* the token, or names a later task in runBeforeAsync
ContextDocumentsA ==
    LET plain == { Document(<< "A" >>, FALSE, order, << >>, aa, << >>, << >>, ts) :
                     order \in Orders, aa \in { << >>, Reader, BeforeLater },
                     ts \in ContextTests }
    IN  plain \cup { WithParams(d, Prop("token", Str(<< Text("old") >>))) :
                      d \in plain }

\* documents of A's child set C, with params or without: one test, which
\* reads the token
ContextDocumentsC ==
    LET plain == Document(<< "A", "C" >>, FALSE, "async", << >>, << >>, << >>, << >>,
                          << Test(FALSE, Reader) >>)
    IN  { plain, WithParams(plain, Prop("token", Str(<< Text("child") >>))) }

\* how many tests the run of the documents starts side by side: the tests
\* of an async A and the test of its child
SideBySide(docs) ==
    IF docs[1].executionOrder = "async"
    THEN Len(docs[1].tests) + Len(docs) - 1
    ELSE 1

\* A alone, or A with fewer than MaxTests tests and its child C: MaxWork
\* tasks at most, two tests side by side at most
ContextScenarios ==
    { docs \in { << a >> : a \in { d \in ContextDocumentsA : Work(d, 0) <= MaxWork } }
               \cup { << a, c >> : a \in { d \in ContextDocumentsA :
                                             /\ Len(d.tests) < MaxTests
                                             /\ Work(d, 0) < MaxWork },
                                   c \in ContextDocumentsC } :
        SideBySide(docs) <= 2 }

ContextInit ==
    /\ \E docs \in ContextScenarios :
           tree = Build(LoadDocuments(NewRepository, docs, 1))
    /\ sets = [p \in SetPaths(tree) |-> IdleSet]
    /\ tests = [t \in TestEnts(tree) |-> IdleTest]
    /\ ex = [e \in { SetEnt(p) : p \in SetPaths(tree) } \cup TestEnts(tree) |-> IdleList]
    /\ top = IdleTop

ContextSpec == ContextInit /\ [][RunNext]_vars

\* ------------------------------------------ loading and building the tree

\* (mutant) loadDocuments throws after any failure
ThrowsAlways(hasErrors, ignoreInvalid) == hasErrors

\* hasErrors && !this.opts.ignoreInvalid
Throws(hasErrors, ignoreInvalid) == hasErrors /\ ~ignoreInvalid

\* Dexit.run before the Runner is called: pc "load" (in the loop of
\* loadDocuments, at docs[i]), "thrown" (loadDocuments has thrown),
\* "loaded" (it has returned), "built"; errors is Repository.errors.
NewLoad(docs, ignoreInvalid) ==
    [pc |-> "load", docs |-> docs, i |-> 1, hasErrors |-> FALSE,
     errors |-> << >>, ignoreInvalid |-> ignoreInvalid]

\* one turn of the loop of loadDocuments
LoadNext ==
    /\ top.pc = "load"
    /\ top.i <= Len(top.docs)
    /\ LET errs == LoadErrors(tree, top.docs[top.i])
       IN  /\ tree' = LoadTestDocument(tree, top.docs[top.i])
           /\ top' = [top EXCEPT !.i = @ + 1,
                                 !.errors = @ \o errs,
                                 !.hasErrors = @ \/ errs # << >>]
    /\ UNCHANGED << ex, sets, tests >>

\* the end of loadDocuments
LoadReturns ==
    /\ top.pc = "load"
    /\ top.i > Len(top.docs)
    /\ top' = [top EXCEPT !.pc = IF Throws(top.hasErrors, top.ignoreInvalid)
                                 THEN "thrown" ELSE "loaded"]
    /\ UNCHANGED << ex, tree, sets, tests >>

\* Repository.build
BuildTree ==
    /\ top.pc = "loaded"
    /\ tree' = Build(tree)
    /\ top' = [top EXCEPT !.pc = "built"]
    /\ UNCHANGED << ex, sets, tests >>

RepoNext ==
    \/ LoadNext
    \/ LoadReturns
    \/ BuildTree

\* the set names of the repository specification: a set, its child and its
\* grandchild
RepoNames == { << "A" >>, << "A", "P" >>, << "A", "P", "C" >> }

\* the beforeEach and afterEach list of the set of that name: a task with
\* the set's local name as id, and a task to run before it
Hooks(name) ==
    << Task(name[Len(name)], NoId, FALSE, FALSE, FALSE),
       Task(NoId, name[Len(name)], FALSE, FALSE, FALSE) >>

\* a task whose command is not registered, a task whose runBeforeAsync
\* names no task of its list
UnknownTask == [Task(NoId, NoId, FALSE, FALSE, FALSE) EXCEPT !.do = UnknownCommand]
LostTask == Task(NoId, "a", FALSE, FALSE, FALSE)

\* documents whose task lists pass validateTaskList: skip, the hooks and
\* one test free
SoundDocuments ==
    { Document(name, skip, "async", << >>, << >>,
               IF hooks THEN Hooks(name) ELSE << >>,
               IF hooks THEN Hooks(name) ELSE << >>,
               tsts) :
        name \in RepoNames, skip \in BOOLEAN, hooks \in BOOLEAN,
        tsts \in { << >>, << Test(FALSE, OneTask) >> } }

\* documents with a test whose tasks do not pass: the first or the second
\* task has an unknown command or a lost dependency
UnsoundDocuments ==
    { Document(name, FALSE, "async", << >>, << >>, << >>, << >>,
               << Test(FALSE, body) >>) :
        name \in RepoNames,
        body \in { << UnknownTask >>, << LostTask >>,
                   << Task("a", NoId, FALSE, FALSE, FALSE), UnknownTask >> } }

\* the files: a sound or unsound document that passes the schema, or a
\* document that does not
Files ==
    { [document |-> d, schemaValid |-> TRUE] : d \in SoundDocuments \cup UnsoundDocuments }
    \cup { [document |-> Document(name, FALSE, "async", << >>, << >>, << >>, << >>, << >>),
            schemaValid |-> FALSE] : name \in RepoNames }

\* the lists of up to n documents the Loader returns, the file at index i
\* named i
RECURSIVE DocumentLists(_)
DocumentLists(n) ==
    IF n = 0 THEN { << >> }
    ELSE LET shorter == DocumentLists(n - 1)
         IN  shorter \cup
             { Append(l, TestDocument(n, f.document, f.schemaValid)) :
                 l \in { x \in shorter : Len(x) = n - 1 }, f \in Files }

RepoInit ==
    /\ tree = NewRepository
    /\ \E docs \in DocumentLists(MaxDocs), ignoreInvalid \in BOOLEAN :
           top = NewLoad(docs, ignoreInvalid)
    /\ sets = << >>
    /\ tests = << >>
    /\ ex = << >>

RepoSpec == RepoInit /\ [][RepoNext]_vars

\* ------------------------------------------- specification of the build

\* a document or a test that defines tags
WithTags(schema, tags) == [tags |-> tags] @@ schema

\* valid documents: skip, hooks and tags free, one tagged test
TaggedDocuments ==
    { LET doc == Document(name, skip, "async", << >>, << >>,
                          IF hooks THEN Hooks(name) ELSE << >>,
                          IF hooks THEN Hooks(name) ELSE << >>,
                          << WithTags(Test(FALSE, OneTask), << "t" >>) >>)
      IN  IF tagged THEN WithTags(doc, << name[Len(name)] >>) ELSE doc :
        name \in RepoNames, skip \in BOOLEAN, hooks \in BOOLEAN,
        tagged \in BOOLEAN }

\* the lists of up to n such documents with pairwise distinct set names,
\* in any order
RECURSIVE DistinctLists(_)
DistinctLists(n) ==
    IF n = 0 THEN { << >> }
    ELSE LET shorter == DistinctLists(n - 1)
         IN  shorter \cup
             { Append(pair[1], TestDocument(n, pair[2], TRUE)) :
                 pair \in { x \in shorter \X TaggedDocuments :
                              /\ Len(x[1]) = n - 1
                              /\ \A j \in 1..Len(x[1]) :
                                    x[1][j].document.name # x[2].name } }

\* a further call of Repository.build
BuildAgain ==
    /\ top.pc = "built"
    /\ tree' = Build(tree)
    /\ top' = [top EXCEPT !.pc = "rebuilt"]
    /\ UNCHANGED << ex, sets, tests >>

BuildNext ==
    \/ RepoNext
    \/ BuildAgain

BuildInit ==
    /\ tree = NewRepository
    /\ \E docs \in { l \in DistinctLists(MaxDocs) : l # << >> } :
           top = NewLoad(docs, FALSE)
    /\ sets = << >>
    /\ tests = << >>
    /\ ex = << >>

BuildSpec == BuildInit /\ [][BuildNext]_vars

\* ------------------------------------- specification of the task validation

\* the task schema that Tools.generateSchema composes: the task names a
\* registered command, its args pass the command's argsSchema and its
\* expect, when present, the command's expectSchema
ComposedTaskSchema(task) ==
    \E c \in Commands :
        /\ task.do = c
        /\ ArgsValidator(c, task.args)
        /\ task.expect => ExpectValidator(c, task.expectArgs)

\* args and expect of the tasks of the validation specification
ArgValues ==
    { EmptyObject,
      Prop("url", Str(<< Text("u") >>)), Prop("url", JsNumber(1)),
      Prop("code", Str(<< Text("1") >>)), Prop("code", JsNumber(1)) }

ExpectValues ==
    { EmptyObject, Prop("code", JsNumber(1)), Prop("code", Str(<< Text("1") >>)) }

\* tasks with the command, args, expect and runBeforeAsync free
SchemaTasks ==
    { [Task("a", rba, FALSE, exp, FALSE) EXCEPT
          !.do = do, !.args = args, !.expectArgs = IF exp THEN e ELSE EmptyObject] :
        rba \in {NoId, "a", "b"}, exp \in BOOLEAN,
        do \in Commands \cup {UnknownCommand},
        args \in ArgValues, e \in ExpectValues }

\* the files: a document of set A with one test of one such task
SchemaFiles ==
    { TestDocument(1, Document(<< "A" >>, FALSE, "async", << >>, << >>, << >>, << >>,
                               << Test(FALSE, << t >>) >>), valid) :
        t \in SchemaTasks, valid \in BOOLEAN }

SchemaInit ==
    /\ tree = NewRepository
    /\ \E f \in SchemaFiles, ignoreInvalid \in BOOLEAN :
           top = NewLoad(<< f >>, ignoreInvalid)
    /\ sets = << >>
    /\ tests = << >>
    /\ ex = << >>

SchemaSpec == SchemaInit /\ [][RepoNext]_vars

\* ------------------------------------------------ specification of Dexit.run

\* (mutant) the validation errors are not handed to the reporters
ErrorsLoggedNever(errors) == FALSE

\* errors.length > 0: logValidationErrors is called
ErrorsLogged(errors) == errors # << >>

\* Dexit.run from getErrors to the call of Runner.run: top keeps what the
\* load left and takes the fields of the call of run; logged says that
\* logValidationErrors was called
StartRunner ==
    /\ top.pc = "built"
    /\ top' = [logged |-> ErrorsLogged(top.errors)] @@ IdleTop @@ top
    /\ sets' = [p \in SetPaths(tree) |-> IdleSet]
    /\ tests' = [t \in TestEnts(tree) |-> IdleTest]
    /\ ex' = [e \in { SetEnt(p) : p \in SetPaths(tree) } \cup TestEnts(tree) |-> IdleList]
    /\ UNCHANGED tree

\* Runner.run was called
RunnerCalled == top.pc \in {"idle", "await", "done", "rejected"}

DexitNext ==
    \/ LoadNext
    \/ LoadReturns
    \/ BuildTree
    \/ StartRunner
    \/ RunnerCalled /\ RunNext

\* a file that cannot be loaded: one that fails the schema, or a document
\* of set A with a task whose command is unknown
BrokenFiles ==
    { [document |-> Document(<< "A" >>, FALSE, "async", << >>, << >>, << >>, << >>, << >>),
       schemaValid |-> FALSE],
      [document |-> Document(<< "A" >>, FALSE, "async", << >>, << >>, << >>, << >>,
                             << Test(FALSE, << UnknownTask >>) >>),
       schemaValid |-> TRUE] }

\* what the Loader returns: a document of set A, alone or after a file
\* that cannot be loaded
DexitLoads ==
    { << TestDocument(1, a, TRUE) >> : a \in DocumentsA }
    \cup { << TestDocument(1, f.document, f.schemaValid), TestDocument(2, a, TRUE) >> :
             f \in BrokenFiles, a \in DocumentsA }

\* ignoreInvalidTests is false unless a file cannot be loaded
DexitInit ==
    /\ tree = NewRepository
    /\ \E docs \in DexitLoads, ignoreInvalid \in BOOLEAN :
          /\ Len(docs) = 1 => ~ignoreInvalid
          /\ top = NewLoad(docs, ignoreInvalid)
    /\ sets = << >>
    /\ tests = << >>
    /\ ex = << >>

DexitSpec == DexitInit /\ [][DexitNext]_vars

\* ------------------------------------------------ specification of the cli

\* process.exit(2): the catch block around construction and init, and the
\* rejection handler of dexit.run()
ExitFailed == 2

\* (mutant) a run that completes exits with 0
ExitCodeZero(errorCount) == 0

\* the fulfilment handler of dexit.run(): 1 if report.errorCount > 0, else 0
ExitCode(errorCount) == IF errorCount > 0 THEN 1 ELSE 0

\* The cli around Dexit.run.  cli is "boot" (before new Dexit(config) and
\* dexit.init()), "run" (dexit.run() was called) or "exited"; code is the
\* argument of process.exit once exited.
NewCli == [cli |-> "boot", code |-> 0]

\* construction and init throw, or return and dexit.run() is called
CliBoot ==
    /\ top.cli = "boot"
    /\ \/ top' = [top EXCEPT !.cli = "exited", !.code = ExitFailed]
       \/ top' = [top EXCEPT !.cli = "run"]
    /\ UNCHANGED << ex, tree, sets, tests >>

\* the Loader rejects (the tests directory is not found): run rejects
\* before loadDocuments is called
LoaderRejects ==
    /\ top.cli = "run"
    /\ top.pc = "load" /\ top.i = 1
    /\ top' = [top EXCEPT !.pc = "thrown"]
    /\ UNCHANGED << ex, tree, sets, tests >>

\* the promise of dexit.run() settles and one of its handlers exits
CliExit ==
    /\ top.cli = "run"
    /\ top.pc \in {"thrown", "done", "rejected"}
    /\ top' = [top EXCEPT
                 !.cli = "exited",
                 !.code = IF top.pc = "done" THEN ExitCode(top.errorCount)
                          ELSE ExitFailed]
    /\ UNCHANGED << ex, tree, sets, tests >>

CliNext ==
    \/ CliBoot
    \/ LoaderRejects
    \/ CliExit
    \/ top.cli = "run" /\ DexitNext

\* what the Loader returns under the cli: the loads whose document of set
\* A has fewer than MaxTests tests
CliLoads ==
    { l \in DexitLoads : Len(l[Len(l)].document.tests) < MaxTests }

CliInit ==
    /\ tree = NewRepository
    /\ \E docs \in CliLoads, ignoreInvalid \in BOOLEAN :
          /\ Len(docs) = 1 => ~ignoreInvalid
          /\ top = NewCli @@ NewLoad(docs, ignoreInvalid)
    /\ sets = << >>
    /\ tests = << >>
    /\ ex = << >>

CliSpec == CliInit /\ [][CliNext]_vars

\* ----------------------------------------------- specification of resolveArgs

\* the data: no property, token or body.token a string, token a number,
\* token a string that reads as a token itself
DataValues ==
    { EmptyObject,
      Prop("token", Str(<< Text("xyz") >>)),
      Prop("body", Prop("token", Str(<< Text("xyz") >>))),
      Prop("token", JsNumber(1)),
      Prop("token", Str(<< Token(<< "body", "token" >>) >>)) }

Pieces ==
    { Text("a"), Text("$.body.token"),
      Token(<< "token" >>), Token(<< "body", "token" >>) }

\* the arguments: a string of up to MaxPieces pieces, bare or as the
\* property auth of an object, or a number
ArgStrings == { Str(l) : l \in ListsOf(Pieces, MaxPieces) }

ArgsToResolve ==
    ArgStrings \cup { Prop("auth", a) : a \in ArgStrings } \cup { JsNumber(1) }

\* one call resolveArgs(data, args): pc "call", then "returned" with the
\* result
ArgsInit ==
    /\ \E d \in DataValues, a \in ArgsToResolve :
           top = [pc |-> "call", data |-> d, args |-> a, result |-> Undefined]
    /\ tree = NoTree
    /\ sets = << >>
    /\ tests = << >>
    /\ ex = << >>

ResolveArgsReturns ==
    /\ top.pc = "call"
    /\ top' = [top EXCEPT !.pc = "returned",
                          !.result = ResolveArgs(top.data, top.args)]
    /\ UNCHANGED << ex, tree, sets, tests >>

ArgsSpec == ArgsInit /\ [][ResolveArgsReturns]_vars

\* ------------------------------------------------- claims on a whole run

InProgress(t) == tests[t].pc \in {"before", "body", "after"}

TestsOf(s) == { TestEnt(s, i) : i \in 1..Len(tree[s].tests) }


Descendants(s) == { c \in SetPaths(tree) : c # s /\ IsPrefix(s, c) }

Children(s) == Range(ChildPaths(tree, s))

C6_SetPhases ==
    \A s \in SetPaths(tree) :
        /\ \A t \in TestsOf(s) : tests[t].begun => sets[s].beforeDone
        /\ \A c \in Children(s) : sets[c].begun => sets[s].beforeDone
        /\ sets[s].afterStarted =>
              /\ \A t \in TestsOf(s) : tests[t].begun => tests[t].complete
              /\ \A c \in Descendants(s) : sets[c].begun => sets[c].complete

\* a set with beforeAll tasks has run a test and a child set and has
\* started its afterAll list
C6_Witness ==
    \E s \in SetPaths(tree) :
        /\ tree[s].beforeAllTasks # << >>
        /\ sets[s].afterStarted
        /\ \E t \in TestsOf(s) : tests[t].complete
        /\ \E c \in Children(s) : sets[c].complete

\* C7: when the beforeAll list of a set has reported an error, no test of
\* the set has logged TestBegin or TestSkip, no child set has logged
\* TestSetBegin, the afterAll list has been started, and the set's call
\* returns only with TestSetComplete logged.
C7_BeforeAllFailed ==
    \A s \in SetPaths(tree) :
        (sets[s].beforeDone /\ sets[s].beforeErrors > 0) =>
            /\ \A t \in TestsOf(s) : ~tests[t].begun /\ ~tests[t].skipLogged
            /\ \A c \in Children(s) : ~sets[c].begun
            /\ sets[s].afterStarted
            /\ sets[s].pc \in {"afterAll", "done", "rejected"}
            /\ sets[s].pc = "done" => sets[s].complete

\* a set with a test and a child set whose beforeAll failed is complete
C7_Witness ==
    \E s \in SetPaths(tree) :
        /\ sets[s].beforeErrors > 0
        /\ sets[s].complete
        /\ TestsOf(s) # {}
        /\ Children(s) # {}

\* C8: in a set with executionOrder "sync" at most one test is in progress,
\* and a test that is run has logged TestBegin only if every test before it
\* that is run has logged TestComplete; in a set with executionOrder
\* "async", when one test that is run has logged TestBegin, every test of
\* the set that is run has.
C8_ExecutionOrder ==
    \A s \in SetPaths(tree) :
        LET run == { t \in TestsOf(s) : ~Truthy(tree[s].tests[t.test].skip) }
        IN  run # {} =>
              IF tree[s].schema.executionOrder = "sync"
              THEN /\ Cardinality({ t \in run : InProgress(t) }) <= 1
                   /\ \A t \in run, u \in run :
                        (t.test < u.test /\ tests[u].begun) => tests[t].complete
              ELSE (\E t \in run : tests[t].begun) => \A t \in run : tests[t].begun

\* the second test of a set with executionOrder "sync" is in progress
C8_Witness ==
    \E s \in SetPaths(tree) :
        /\ Len(tree[s].tests) = 2
        /\ tree[s].schema.executionOrder = "sync"
        /\ tests[TestEnt(s, 1)].complete
        /\ InProgress(TestEnt(s, 2))
        /\ ex[TestEnt(s, 2)].runLog # << >>

\* the commands of two tests of one set run at the same time
TestsInterleave ==
    \E s \in SetPaths(tree) :
        /\ Len(tree[s].tests) = 2
        /\ \A t \in TestsOf(s) :
              \E k \in DOMAIN ex[t].run : ex[t].run[k].tpc = "pending"

\* the tests whose runTest returned a TestReport
Executed == { t \in TestEnts(tree) : tests[t].complete }

\* C10: in the report Runner.run returns, testCount is skippedCount plus
\* the number of TestReports of the report tree.
C10_CountsAddUp ==
    top.pc = "done" =>
        /\ ~top.skippedCount.nan
        /\ top.testCount = top.skippedCount.n + Cardinality(Executed)

\* the errors in the errors lists of all TaskReports of the run
AllTaskErrors ==
    SumOver(SetPaths(tree), [s \in SetPaths(tree) |-> sets[s].taskErrors])
    + SumOver(TestEnts(tree), [t \in TestEnts(tree) |-> tests[t].taskErrors])

\* C11: in the report Runner.run returns, errorCount is the number of
\* errors in the errors lists of all TaskReports of the run.
C11_ErrorCountIsErrors ==
    top.pc = "done" => top.errorCount = AllTaskErrors

\* C35: every entry logTestSetSkip was called with is a set whose resolved
\* skip is true, and no set that has logged TestSetBegin was ever named in
\* a TestSetSkip event.
C35_SkipNamesSkippedSet ==
    \A s \in SetPaths(tree) :
        sets[s].skipLogged > 0 => (Truthy(tree[s].skip) /\ ~sets[s].begun)

\* a call of runTask has ended with its latch unresolved: its command
\* settled without notifyReady, or the task ended before cmd.run was called
Unnotified ==
    \E e \in DOMAIN ex : \E k \in DOMAIN ex[e].run :
        ex[e].run[k].tpc = "done" /\ ~ex[e].run[k].ready

\* C38: unless a task ends without its latch resolved, Runner.run
\* eventually resolves with its report, and by then every set and every
\* test that logged its begin has logged its completion.
C38_RunResolves ==
    <>( \/ Unnotified
        \/ /\ top.pc = "done"
           /\ \A s \in SetPaths(tree) : sets[s].begun => sets[s].complete
           /\ \A t \in TestEnts(tree) : tests[t].begun => tests[t].complete )

\* ------------------------------------------- claims on a run with params

\* the params of the context made on descent to a set: the params of the
\* entries from the root down, merged
RECURSIVE InheritedParams(_)
InheritedParams(path) ==
    IF path = RootPath THEN DefaultParams
    ELSE ChildParams(InheritedParams(Parent(path)), tree[path])

\* the same for the entity of a set or of a test
DescentParams(x) ==
    IF x.test = 0 THEN InheritedParams(x.set)
    ELSE ChildParams(InheritedParams(x.set), tree[x.set].tests[x.test])

NoSetIn(tasks) == \A j \in 1..Len(tasks) : ~tasks[j].set

\* no task of the entity's own lists has a set step, and none of the
\* beforeAll and afterAll lists of the sets around it
NoSetAbove(x) ==
    /\ \A j \in 1..Len(x.set) :
          LET a == tree[SubSeq(x.set, 1, j)]
          IN  NoSetIn(a.beforeAllTasks) /\ NoSetIn(a.afterAllTasks)
    /\ x.test # 0 =>
          /\ NoSetIn(tree[x.set].beforeEachTasks)
          /\ NoSetIn(tree[x.set].tests[x.test].tasks)
          /\ NoSetIn(tree[x.set].afterEachTasks)

\* a set step is made in a list of entity e
SetStepIn(e) ==
    \E k \in DOMAIN ex[e].run :
        /\ ~ex[e].run[k].setDone
        /\ k \in DOMAIN ex'[e].run
        /\ ex'[e].run[k].setDone

\* an entity without a set step of its own (or of a set around it) has
\* the params made on descent, and runs its tasks with args interpolated
\* from them
C22_Unaffected ==
    \A x \in DOMAIN ex :
        (ex[x].cstate # "idle" /\ NoSetAbove(x)) =>
            /\ Params(ex[x]) = DescentParams(x)
            /\ \A k \in DOMAIN ex[x].run :
                  ex[x].run[k].runArgs # Null =>
                      ex[x].run[k].runArgs =
                          ResolveArgs(DescentParams(x), MapTask(ex[x].tasks, k).args)

\* a set step in a list of a test leaves the params of every other entity
\* as they are
C22_Frame ==
    \A e \in DOMAIN ex :
        (e.test # 0 /\ SetStepIn(e)) =>
            \A x \in DOMAIN ex \ {e} : Params(ex[x])' = Params(ex[x])

\* C22: a set step of a task of a test changes the params of that test's
\* context only: sibling tests, the enclosing set (its afterAll tasks) and
\* child sets keep the params their contexts got on descent, and their
\* tasks are run with args interpolated from those.
C22_TestContextOnly == []C22_Unaffected /\ [][C22_Frame]_vars

\* the token a set step of the test has assigned
HasSetToken(t) ==
    /\ "token" \in DOMAIN Params(ex[t]).props
    /\ Params(ex[t]).props["token"] = Str(<< Text("xyz") >>)

\* a task of the entity was run with the args {auth: "${token}"}
ReadToken(x) ==
    \E k \in DOMAIN ex[x].run :
        /\ ex[x].run[k].ran
        /\ MapTask(ex[x].tasks, k).args = AuthArgs

\* in a set that awaits each test, a test has set the token and a later
\* test, whose context was made after that, has read it
C22_Witness ==
    \E s \in SetPaths(tree) : \E i, j \in 1..Len(tree[s].tests) :
        /\ i < j
        /\ tree[s].schema.executionOrder = "sync"
        /\ HasSetToken(TestEnt(s, i))
        /\ ReadToken(TestEnt(s, j))

\* the same for tests that run side by side, for the afterAll list of the
\* set and for a test of the child set
C22_Interleaved ==
    \E s \in SetPaths(tree) : \E i, j \in 1..Len(tree[s].tests) :
        /\ i # j
        /\ tree[s].schema.executionOrder = "async"
        /\ HasSetToken(TestEnt(s, i))
        /\ ex[TestEnt(s, i)].cstate # "returned"
        /\ ReadToken(TestEnt(s, j))

C22_AfterAll ==
    \E s \in SetPaths(tree) : \E i \in 1..Len(tree[s].tests) :
        /\ HasSetToken(TestEnt(s, i))
        /\ sets[s].afterStarted
        /\ ReadToken(SetEnt(s))

C22_Child ==
    \E s \in SetPaths(tree) : \E i \in 1..Len(tree[s].tests) :
        /\ HasSetToken(TestEnt(s, i))
        /\ \E c \in Range(ChildPaths(tree, s)) : \E j \in 1..Len(tree[c].tests) :
              ReadToken(TestEnt(c, j))

\* ------------------------------------------------ claims on the built tree

Built == top.pc = "built"

\* a document has claimed the entry
Claimed(p) == tree[p].schema # NullSchema

\* the entries from the child of the root down to p
UpTo(p) == { SubSeq(p, 1, n) : n \in 1..Len(p) }

\* the document of p or of one of its ancestors sets skip
SkipSet(p) == \E q \in UpTo(p) : Claimed(q) /\ tree[q].schema.skip

\* C12: after build, every entry below the root has skip true if and only
\* if its own document or the document of one of its ancestors sets skip.
C12_SkipInherited ==
    Built => \A p \in SetPaths(tree) : tree[p].skip = "true" <=> SkipSet(p)

OwnBeforeEach(p) == IF Claimed(p) THEN tree[p].schema.beforeEach ELSE << >>
OwnAfterEach(p) == IF Claimed(p) THEN tree[p].schema.afterEach ELSE << >>

\* C13: after build, the beforeEachTasks of every entry below the root are
\* its parent's beforeEachTasks followed by its own beforeEach list, and
\* likewise for afterEachTasks.
C13_HooksInherited ==
    Built =>
        \A p \in SetPaths(tree) :
            /\ tree[p].beforeEachTasks =
                   tree[Parent(p)].beforeEachTasks \o OwnBeforeEach(p)
            /\ tree[p].afterEachTasks =
                   tree[Parent(p)].afterEachTasks \o OwnAfterEach(p)

\* the tests of a set and of all its descendant sets
TransitiveTests(s) ==
    Len(tree[s].tests)
    + SumOver(Descendants(s), [c \in Descendants(s) |-> Len(tree[c].tests)])

SkippedOf(S) == { c \in S : tree[c].skip = "true" }

\* C14: where the Runner has met skipped sets, at root level in run or as
\* children in runTestSet, skippedCount has grown by the tests of each of
\* them and of its descendants.
C14_SkippedSetsCounted ==
    /\ top.pc = "await" =>
          top.skippedCount =
              Num(SumOver(SkippedOf(RootSets),
                          [c \in SkippedOf(RootSets) |-> TransitiveTests(c)]))
    /\ \A s \in SetPaths(tree) :
          sets[s].pc \in {"awaitTests", "awaitChildren"} =>
              sets[s].skippedCount =
                  Num(Cardinality({ t \in TestsOf(s) : tests[t].skipLogged })
                      + SumOver(SkippedOf(Children(s)),
                                [c \in SkippedOf(Children(s)) |-> TransitiveTests(c)]))

SkippedTests == { t \in TestEnts(tree) : tree[t.set].tests[t.test].skip = "true" }

\* no TestSetBegin, no TestBegin and no task list for a set whose document
\* or an ancestor's document sets skip, nor for the tests of such a set or
\* any test with skip
NothingRunForSkipped ==
    /\ \A s \in SetPaths(tree) :
          SkipSet(s) =>
              /\ ~sets[s].begun
              /\ ex[SetEnt(s)] = IdleList
              /\ \A t \in TestsOf(s) : ~tests[t].begun /\ ex[t] = IdleList
    /\ \A t \in SkippedTests : ~tests[t].begun /\ ex[t] = IdleList

\* the loop of runTestSet over the tests of s has come to its end
TestsLoopDone(s) ==
    sets[s].pc \in {"awaitTests", "awaitChildren"}
    \/ (sets[s].beforeErrors = 0 /\ sets[s].pc \in {"afterAll", "done"})

\* C15 as stated: nothing is run for a skipped set or test, and every test
\* with skip set, own or inherited, has logged TestSkip when the run is over.
C15_TestSkipForEverySkipped ==
    /\ NothingRunForSkipped
    /\ top.pc = "done" => \A t \in SkippedTests : tests[t].skipLogged

\* C15: nothing is run for a skipped set or test, and a test with skip set
\* has logged TestSkip once the loop over the tests of its set, which is
\* run and whose beforeAll list reported no error, has passed it.
C15_NothingRunForSkipped ==
    /\ NothingRunForSkipped
    /\ \A t \in SkippedTests : TestsLoopDone(t.set) => tests[t].skipLogged

\* a set is complete whose skipped test has logged TestSkip and whose
\* skipped child set was not begun
C15_Witness ==
    \E s \in SetPaths(tree) :
        /\ sets[s].complete
        /\ \E t \in TestsOf(s) : t \in SkippedTests /\ tests[t].skipLogged
        /\ \E c \in Children(s) : SkipSet(c) /\ ~sets[c].begun /\ TestsOf(c) # {}

\* ------------------------------------------------- claims on the build

\* the fields of an entry that build resolves
Resolved(entry) ==
    [tags |-> entry.tags, skip |-> entry.skip, defaults |-> entry.defaults,
     params |-> entry.params,
     beforeAllTasks |-> entry.beforeAllTasks, afterAllTasks |-> entry.afterAllTasks,
     beforeEachTasks |-> entry.beforeEachTasks, afterEachTasks |-> entry.afterEachTasks,
     tests |-> entry.tests]

ResolvedTree(nodes) == [p \in DOMAIN nodes |-> Resolved(nodes[p])]

\* C39: a second call of build leaves tags, skip, defaults, params, the
\* four hook lists and the tests of every entry as the first call made
\* them.
C39_BuildIdempotent ==
    [][(top.pc = "built" /\ top'.pc = "rebuilt") =>
            ResolvedTree(tree') = ResolvedTree(tree)]_vars

\* build was called twice on a tree with a child that inherits tags and
\* hooks from its parent
C39_Witness ==
    /\ top.pc = "rebuilt"
    /\ \E p \in SetPaths(tree) :
          /\ Len(p) > 1
          /\ tree[p].schema # NullSchema
          /\ tree[Parent(p)].tags # << >>
          /\ Len(tree[p].tags) > Len(tree[Parent(p)].tags)
          /\ tree[Parent(p)].beforeEachTasks # << >>
          /\ Len(tree[p].beforeEachTasks) > Len(tree[Parent(p)].beforeEachTasks)

\* the bijections of 1..n
Orderings(n) ==
    { f \in [1..n -> 1..n] : \A i, j \in 1..n : f[i] = f[j] => i = j }

\* the documents of the list in the order f
Reordered(docs, f) == [i \in 1..Len(docs) |-> docs[f[i]].document]

\* C40: for valid documents with pairwise distinct set names, the built
\* tree has the same entries, with the same tags, skip, hook lists and
\* tests, in whatever order the documents are loaded.
C40_LoadOrder ==
    top.pc = "built" =>
        \A f \in Orderings(Len(top.docs)) :
            ResolvedTree(Build(LoadDocuments(NewRepository, Reordered(top.docs, f), 1)))
                = ResolvedTree(tree)

\* a child's document was loaded before its parent's, and the child has
\* the parent's tags and hooks
C40_Witness ==
    /\ top.pc = "built"
    /\ \E i, j \in 1..Len(top.docs) :
          /\ i < j
          /\ Parent(top.docs[i].document.name) = top.docs[j].document.name
          /\ tree[top.docs[j].document.name].tags # << >>
          /\ IsPrefix(tree[top.docs[j].document.name].tags,
                      tree[top.docs[i].document.name].tags)
          /\ tree[top.docs[j].document.name].beforeEachTasks # << >>
          /\ IsPrefix(tree[top.docs[j].document.name].beforeEachTasks,
                      tree[top.docs[i].document.name].beforeEachTasks)

\* ---------------------------------------------------- claims on the load

\* loadTestSet was called with the file at index k
Loaded(k) == k \in 1..Len(top.docs) /\ k < top.i

\* the indexes in Repository.errors of the errors of the file at index k
ErrorsOf(k) == { n \in 1..Len(top.errors) : top.errors[n].document = k }

\* the file at index k was loaded without an error
Accepted(k) == Loaded(k) /\ ErrorsOf(k) = {}

SetName(k) == top.docs[k].document.name

\* the file at index k has the set name of an accepted schema-valid file
\* loaded before it
RepeatsAccepted(k) ==
    \E j \in 1..(k - 1) :
        top.docs[j].schemaValid /\ Accepted(j) /\ SetName(j) = SetName(k)

SchemasOf(tsts) == [i \in 1..Len(tsts) |-> tsts[i].schema]

\* C16: when a schema-valid document has the set name of a schema-valid
\* document that was accepted before it, loading it records exactly one
\* error, whose id is the set's id, and the entry keeps the schema and the
\* tests of the first document.
C16_DuplicateRejected ==
    top.pc \in {"load", "loaded", "thrown", "built"} =>
        \A j \in 1..Len(top.docs), k \in 1..Len(top.docs) :
            ( /\ j < k /\ Loaded(k)
              /\ top.docs[j].schemaValid /\ top.docs[k].schemaValid
              /\ Accepted(j) /\ SetName(j) = SetName(k) ) =>
                /\ Cardinality(ErrorsOf(k)) = 1
                /\ \A n \in ErrorsOf(k) : top.errors[n].id = EntryId(SetName(k))
                /\ tree[SetName(k)].schema = top.docs[j].document
                /\ SchemasOf(tree[SetName(k)].tests) = top.docs[j].document.tests

\* a document with a test whose task has an unknown command was loaded
\* after an accepted document of the same name with a test
C16_Witness ==
    /\ top.pc = "load"
    /\ Loaded(2)
    /\ top.docs[1].schemaValid /\ Accepted(1)
    /\ SetName(1) = SetName(2)
    /\ top.docs[1].document.tests # << >>
    /\ top.docs[2].schemaValid
    /\ top.docs[2].document \in UnsoundDocuments

\* the file does not pass the schema or has a task list that does not pass
Unloadable(k) ==
    ~top.docs[k].schemaValid \/ top.docs[k].document \in UnsoundDocuments

\* C17: when loadDocuments is over, loadTestSet was called with every
\* document, every document that cannot be loaded has its errors in
\* Repository.errors, every document without error has claimed its entry,
\* and loadDocuments has thrown if and only if there is an error and
\* ignoreInvalid is false.
C17_LoadDocuments ==
    top.pc \in {"thrown", "loaded", "built"} =>
        /\ top.i = Len(top.docs) + 1
        /\ \A k \in 1..Len(top.docs) :
              /\ Unloadable(k) => ErrorsOf(k) # {}
              /\ Accepted(k) => tree[SetName(k)].schema = top.docs[k].document
        /\ top.pc = "thrown" <=> (top.errors # << >> /\ ~top.ignoreInvalid)

\* with ignoreInvalid, loadDocuments has returned although the first
\* document failed, and the second is loaded
C17_Witness ==
    /\ top.pc = "loaded"
    /\ top.ignoreInvalid
    /\ Len(top.docs) = 2
    /\ Unloadable(1)
    /\ Accepted(2)

\* the task lists of an entry that the Runner hands to runTaskList
ListsOfEntry(p) ==
    { tree[p].beforeAllTasks, tree[p].afterAllTasks,
      tree[p].beforeEachTasks, tree[p].afterEachTasks }
    \cup { tree[p].tests[i].tasks : i \in 1..Len(tree[p].tests) }

RunnerLists == UNION { ListsOfEntry(p) : p \in SetPaths(tree) }

\* the id of the task at position p of the first test of the file at
\* index k
TestTaskId(k, p) ==
    EntryId(SetName(k)) \o ".tests[0].tasks[" \o ToString(p - 1) \o "]"

\* C19: after load and build every task of every list the Runner can
\* execute has a registered command; and a document that comes to the
\* validation of its tasks with a task whose command is unknown has exactly
\* one error with that task's id and has not claimed its entry.
C19_CommandsResolve ==
    /\ Built => \A l \in RunnerLists : \A p \in 1..Len(l) : l[p].do \in Commands
    /\ top.pc \in {"load", "loaded", "thrown", "built"} =>
          \A k \in 1..Len(top.docs) :
              ( /\ Loaded(k) /\ top.docs[k].schemaValid /\ ~RepeatsAccepted(k)
                /\ top.docs[k].document.tests # << >> ) =>
                  \A p \in 1..Len(top.docs[k].document.tests[1].tasks) :
                      top.docs[k].document.tests[1].tasks[p].do \notin Commands =>
                          /\ Cardinality({ n \in ErrorsOf(k) :
                                 top.errors[n].id = TestTaskId(k, p) }) = 1
                          /\ tree[SetName(k)].schema # top.docs[k].document

\* the tree is built from a document with tasks in its tests and its hooks,
\* after a document whose second task has an unknown command was loaded
C19_Witness ==
    /\ Built
    /\ \E l \in RunnerLists : l # << >>
    /\ \E k \in 1..Len(top.docs) :
          /\ top.docs[k].schemaValid /\ ~RepeatsAccepted(k)
          /\ top.docs[k].document.tests # << >>
          /\ Len(top.docs[k].document.tests[1].tasks) = 2
          /\ top.docs[k].document.tests[1].tasks[2].do \notin Commands
          /\ \E n \in ErrorsOf(k) : top.errors[n].id = TestTaskId(k, 2)

\* C20: after load and build, in every task list the Runner executes every
\* runBeforeAsync value is the id of a task of the same list.
C20_DependenciesResolve ==
    Built =>
        \A l \in RunnerLists : \A p \in 1..Len(l) :
            l[p].runBeforeAsync # NoId =>
                \E q \in 1..Len(l) : l[q].id = l[p].runBeforeAsync

\* a built entry whose beforeEachTasks are its parent's followed by its
\* own, each with a runBeforeAsync
C20_Witness ==
    /\ Built
    /\ \E p \in SetPaths(tree) :
          /\ Len(p) = 2
          /\ Len(tree[p].beforeEachTasks) = 4
          /\ tree[p].beforeEachTasks[2].runBeforeAsync # NoId
          /\ tree[p].beforeEachTasks[4].runBeforeAsync # NoId

\* the tasks of all lists of a document
TasksOf(doc) ==
    LET lists == { doc.beforeAll, doc.afterAll, doc.beforeEach, doc.afterEach }
                 \cup { doc.tests[i].tasks : i \in 1..Len(doc.tests) }
    IN  UNION { { l[p] : p \in 1..Len(l) } : l \in lists }

\* the document passes the composed schema
ComposedSchema(tdoc) ==
    tdoc.schemaValid /\ \A t \in TasksOf(tdoc.document) : ComposedTaskSchema(t)

\* every runBeforeAsync of the document names a task of its list
DependenciesResolve(doc) ==
    /\ DependenciesFound(doc.beforeAll) /\ DependenciesFound(doc.afterAll)
    /\ DependenciesFound(doc.beforeEach) /\ DependenciesFound(doc.afterEach)
    /\ \A i \in 1..Len(doc.tests) : DependenciesFound(doc.tests[i].tasks)

\* C26: a document (whose runBeforeAsync targets exist, and whose set name
\* is not taken) passes Repository.loadTestSet if and only if it validates
\* against the composed schema, all its tasks naming registered commands:
\* args checked against the command's args schema, expect against its
\* expect schema.
C26_ValidationAgrees ==
    top.pc \in {"load", "loaded", "thrown", "built"} =>
        \A k \in 1..Len(top.docs) :
            (Loaded(k) /\ ~RepeatsAccepted(k)
               /\ DependenciesResolve(top.docs[k].document)) =>
                (Accepted(k) <=> ComposedSchema(top.docs[k]))

\* the document loadTestSet is called with in the next turn of the loop
Loading == top.docs[top.i]

\* the step is a turn of the loop of loadDocuments
LoadStep == top.pc = "load" /\ top.i <= Len(top.docs) /\ top'.i = top.i + 1

\* the call fails in the validation of the task lists
FailsInTasks(tdoc) ==
    /\ tdoc.schemaValid
    /\ ~IsDuplicate(tree, tdoc.document)
    /\ ~TaskListsValid(tdoc.document)

\* a failing call of loadTestSet leaves schema and tests of every claimed
\* node, and leaves the target node unclaimed after a task failure
C36_FailureKeeps ==
    (LoadStep /\ LoadErrors(tree, Loading) # << >>) =>
        /\ \A p \in DOMAIN tree :
              tree[p].schema # NullSchema =>
                  /\ p \in DOMAIN tree'
                  /\ tree'[p].schema = tree[p].schema
                  /\ tree'[p].tests = tree[p].tests
        /\ FailsInTasks(Loading) =>
              /\ tree'[Loading.document.name].schema = NullSchema
              /\ tree'[Loading.document.name].tests = << >>

\* a valid document whose name no document has claimed is accepted
C36_UnclaimedAccepted ==
    ( /\ LoadStep
      /\ Loading.schemaValid
      /\ TaskListsValid(Loading.document)
      /\ ~IsDuplicate(tree, Loading.document) ) =>
        /\ LoadErrors(tree, Loading) = << >>
        /\ tree'[Loading.document.name].schema = Loading.document

\* C36: a call of loadTestSet that fails changes neither schema nor tests
\* of any claimed node; after a failure in the task validation the target
\* node is unclaimed (schema null, no tests), and a valid document with a
\* name that is not claimed is accepted without error.
C36_FailedLoadClaimsNothing == [][C36_FailureKeeps /\ C36_UnclaimedAccepted]_vars

\* a document that failed in its tasks, and a later document of the same
\* name that was accepted
C36_Witness ==
    \E i, j \in 1..Len(top.docs) :
        /\ i < j /\ j < top.i
        /\ top.docs[i].document.name = top.docs[j].document.name
        /\ top.docs[i].schemaValid
        /\ ~TaskListsValid(top.docs[i].document)
        /\ top.docs[j].document.name \in DOMAIN tree
        /\ tree[top.docs[j].document.name].schema = top.docs[j].document
        /\ \A h \in 1..Len(top.errors) : top.errors[h].document # top.docs[j].filename

\* --------------------------------------------------- claims on Dexit.run

\* a test-set, test or task event was logged, or a command was run
SomethingRun ==
    \/ \E s \in DOMAIN sets : sets[s].begun \/ sets[s].skipLogged > 0
    \/ \E t \in DOMAIN tests : tests[t].begun \/ tests[t].skipLogged
    \/ \E e \in DOMAIN ex : ex[e].runLog # << >>

\* C18: when a document could not be loaded and ignoreInvalidTests is
\* false, the Runner is never called and nothing is logged or run; when it
\* is true, the Runner is called with the validation errors logged before,
\* and every test that is begun belongs to an entry claimed by a document
\* that was loaded without an error.
C18_InvalidDocuments ==
    /\ (top.errors # << >> /\ ~top.ignoreInvalid) =>
          ~RunnerCalled /\ ~SomethingRun /\ top.pc \in {"load", "thrown"}
    /\ SomethingRun => RunnerCalled
    /\ RunnerCalled => (top.errors # << >> => top.logged)
    /\ \A t \in DOMAIN tests :
          tests[t].begun =>
              \E k \in 1..Len(top.docs) :
                  Accepted(k) /\ tree[t.set].schema = top.docs[k].document

\* with ignoreInvalidTests, the run is over, a test has run a task, and the
\* first document had failed
C18_Witness ==
    /\ top.pc = "done"
    /\ top.ignoreInvalid
    /\ ErrorsOf(1) # {}
    /\ \E t \in DOMAIN tests : tests[t].complete /\ tests[t].taskErrors > 0

\* loadDocuments has thrown
C18_Aborted == top.pc = "thrown" /\ Len(top.docs) = 2

\* ------------------------------------------------------ claims on the cli

\* C25: the process exits with 0 if the run completed with errorCount = 0,
\* with 1 if it completed with errorCount > 0, and with 2 if construction
\* or init threw or run rejected (the Loader, loadDocuments or the Runner);
\* it exits with no other code and only once run has settled.
C25_ExitCode ==
    /\ top.cli = "exited" =>
          /\ top.code \in {0, 1, 2}
          /\ top.code = 0 <=> (top.pc = "done" /\ top.errorCount = 0)
          /\ top.code = 1 <=> (top.pc = "done" /\ top.errorCount > 0)
          /\ top.code = 2 <=> top.pc \in {"load", "thrown", "rejected"}
          /\ top.pc = "load" => top.i = 1
    /\ top.cli = "boot" => top.pc = "load" /\ top.i = 1

\* the process has exited with 1 after a run in which a test had errors
C25_Witness ==
    /\ top.cli = "exited" /\ top.code = 1
    /\ \E t \in DOMAIN tests : tests[t].complete /\ tests[t].errorCount > 0

\* the process has exited with 2 after loadDocuments threw
C25_Failed ==
    top.cli = "exited" /\ top.code = ExitFailed /\ top.pc = "thrown" /\ top.hasErrors

\* the process has exited with 2 after the Runner rejected
C25_Rejected ==
    top.cli = "exited" /\ top.code = ExitFailed /\ top.pc = "rejected"

\* ------------------------------------------------- claims on resolveArgs

\* the token's path is absent from the data
Unresolved(data, piece) == piece.tok /\ Lookup(data, piece.text, 1) = Undefined

IsText(piece) == ~piece.tok

\* C24: resolveArgs returns for an unresolved path (it does not throw): a
\* string that is one token whose path is absent from the data yields a
\* null value (undefined), and in a longer string every token whose path is
\* absent is replaced by the empty string.
C24_UnresolvedPath ==
    (top.pc = "returned" /\ top.args.type = "string") =>
        LET pieces == top.args.pieces
        IN  (\A j \in 1..Len(pieces) : pieces[j].tok => Unresolved(top.data, pieces[j])) =>
                IF Len(pieces) = 1 /\ pieces[1].tok
                THEN top.result = Undefined
                ELSE top.result = Str(SelectSeq(pieces, IsText))

====
